---------------------------- MODULE Spec2Model ----------------------------
(***************************************************************************)
(* A model of the chat_with_excel core: the query pre-processor            *)
(* (OpenAIService.preprocessQuery and its handlers), the response parser   *)
(* (OpenAIService.parseResponse) and the chat component (ChatInterface,    *)
(* App).  The repository holds two variants of OpenAIService: the one of   *)
(* src/unnamed/part_003 (definitions suffixed _p3) and the one of          *)
(* src/src/utils/openai.ts (definitions suffixed _openai).                 *)
(*                                                                         *)
(* Strings are sequences of one-character strings, so that includes(),     *)
(* indexOf(), toLowerCase(), trim(), parseFloat() and the regular          *)
(* expressions of the source are computed character by character.          *)
(* Numbers are integers: the inputs of the model hold no '.', no exponent. *)
(***************************************************************************)
EXTENDS Integers, Sequences, FiniteSets, TLC

VARIABLES
    question,   \* the user's question (a string)
    data,       \* the ExcelData: [fileName, sheets]
    rankN,      \* the N handed to processTopNQuery / processBottomNQuery
    response,   \* the model's raw reply handed to parseResponse
    result,     \* what each operation applied so far returned, by its name
    apiKey,         \* import.meta.env.VITE_OPENAI_API_KEY is set
    excelData,      \* App: the dataset, NoData when null
    chatMessages,   \* App: the conversation
    storage,        \* localStorage: [data, history]
    mounted,        \* ChatInterface: "none", "rendered" (effect not yet run), "ready"
    instance,       \* the number of ChatInterface instances rendered so far
    inputMessage,   \* ChatInterface state
    isLoading,      \* ChatInterface state
    apiError,       \* ChatInterface state, "null" when null
    openAIService,  \* ChatInterface: openAIService.current is set
    pending,        \* the analyzeData calls awaited by handleSendMessage
    calls,          \* the number of questions dispatched to the model so far
    clock           \* Date.now()

inputs == <<question, data, rankN, response>>
appVars == <<apiKey, excelData, chatMessages, storage>>
uiVars == <<mounted, instance, inputMessage, isLoading, apiError, openAIService>>
callVars == <<pending, calls, clock>>
chatVars == <<appVars, uiVars, callVars>>
vars == <<inputs, result, chatVars>>

(***************************************************************************)
(* Characters and strings                                                  *)
(***************************************************************************)
UpperChars == <<"A","B","C","D","E","F","G","H","I","J","K","L","M",
                "N","O","P","Q","R","S","T","U","V","W","X","Y","Z">>
LowerChars == <<"a","b","c","d","e","f","g","h","i","j","k","l","m",
                "n","o","p","q","r","s","t","u","v","w","x","y","z">>
DigitChars == <<"0","1","2","3","4","5","6","7","8","9">>

UpperSet == {UpperChars[i] : i \in 1..26}
LetterSet == UpperSet \cup {LowerChars[i] : i \in 1..26}
DigitSet == {DigitChars[i] : i \in 1..10}

IsUpper(c) == c \in UpperSet
IsLetter(c) == c \in LetterSet
IsDigit(c) == c \in DigitSet
DigitVal(c) == (CHOOSE i \in 1..10 : DigitChars[i] = c) - 1
\* \w of a regular expression
IsWordChar(c) == IsLetter(c) \/ IsDigit(c) \/ c = "_"
\* \s of a regular expression, and the white space trim() and parseFloat skip
IsSpace(c) == c \in {" ", "\n", "\t", "\r"}

LowerChar(c) == IF IsUpper(c) THEN LowerChars[CHOOSE i \in 1..26 : UpperChars[i] = c] ELSE c
toLowerCase(s) == [i \in 1..Len(s) |-> LowerChar(s[i])]

Min(S) == CHOOSE x \in S : \A y \in S : x <= y

\* sub occurs in s at position i
OccursAt(s, sub, i) ==
    /\ i >= 1
    /\ i + Len(sub) - 1 <= Len(s)
    /\ \A j \in 1..Len(sub) : s[i + j - 1] = sub[j]

\* String.prototype.includes
includes(s, sub) == \E i \in 1..(Len(s) + 1) : OccursAt(s, sub, i)

\* String.prototype.indexOf, 1-based; 0 stands for -1
indexOf(s, sub) ==
    IF includes(s, sub) THEN Min({i \in 1..(Len(s) + 1) : OccursAt(s, sub, i)}) ELSE 0

\* String.prototype.trim
trim(s) ==
    LET between(keep) ==
            IF keep = {} THEN <<>>
            ELSE SubSeq(s, Min(keep), CHOOSE x \in keep : \A y \in keep : y <= x)
    IN  between({i \in 1..Len(s) : ~IsSpace(s[i])})

\* first position >= i that holds no white space (Len(s)+1 at the end)
SkipSpaces(s, i) == Min({j \in i..(Len(s) + 1) : j = Len(s) + 1 \/ ~IsSpace(s[j])})
\* first position >= i that holds no digit
SkipDigits(s, i) == Min({j \in i..(Len(s) + 1) : j = Len(s) + 1 \/ ~IsDigit(s[j])})

RECURSIVE DigitsValue(_)
\* the value of a run of decimal digits (parseInt / parseFloat of the run)
DigitsValue(ds) ==
    IF ds = <<>> THEN 0
    ELSE 10 * DigitsValue(SubSeq(ds, 1, Len(ds) - 1)) + DigitVal(ds[Len(ds)])

RECURSIVE Concat(_)
\* the concatenation of a sequence of strings
Concat(ss) == IF ss = <<>> THEN <<>> ELSE Head(ss) \o Concat(Tail(ss))

RECURSIVE NatToString(_)
\* Number.prototype.toString of a natural number
NatToString(n) ==
    IF n < 10 THEN <<DigitChars[n + 1]>>
    ELSE NatToString(n \div 10) \o <<DigitChars[(n % 10) + 1]>>

\* a regular expression's \b between positions i-1 and i of s
WordBoundary(s, i) ==
    LET before == i - 1 >= 1 /\ i - 1 <= Len(s) /\ IsWordChar(s[i - 1])
        after  == i >= 1 /\ i <= Len(s) /\ IsWordChar(s[i])
    IN  before # after

(***************************************************************************)
(* Numbers: the result of parseFloat is NaN, a finite number or +/-Infinity *)
(***************************************************************************)
NaN == [k |-> "nan", v |-> 0]
Fin(n) == [k |-> "fin", v |-> n]
PosInf == [k |-> "inf", v |-> 1]
NegInf == [k |-> "inf", v |-> -1]
isNaN(x) == x.k = "nan"

\* parseFloat of a string: leading white space, an optional sign, then
\* "Infinity" or a run of digits; anything after is ignored
parseFloatStr(s) ==
    LET \* the number whose digits are s[j..e-1], negated when neg
        number(neg, j, e) ==
            IF OccursAt(s, <<"I","n","f","i","n","i","t","y">>, j)
            THEN (IF neg THEN NegInf ELSE PosInf)
            ELSE IF e = j THEN NaN
            ELSE Fin((IF neg THEN -1 ELSE 1) * DigitsValue(SubSeq(s, j, e - 1)))
        signed(neg, j) == number(neg, j, SkipDigits(s, j))
        \* i is the first position that holds no white space
        from(i) == signed(i <= Len(s) /\ s[i] = "-",
                          IF i <= Len(s) /\ s[i] \in {"-", "+"} THEN i + 1 ELSE i)
    IN  from(SkipSpaces(s, 1))

(***************************************************************************)
(* Cells, rows, sheets.  A cell is a JavaScript number, string or          *)
(* null/undefined.  A sheet is [name, headers, rows]; rows[r][c] is the    *)
(* cell of row r under headers[c] (Object.keys(rows[0]) are the headers).  *)
(***************************************************************************)
NumCell(n) == [ty |-> "number", num |-> n, str |-> <<>>]
\* the numbers Infinity (sign 1) and -Infinity (sign -1)
InfCell(sign) == [ty |-> "number", num |-> sign, str |-> <<"I","n","f","i","n","i","t","y">>]
StrCell(s) == [ty |-> "string", num |-> 0, str |-> s]
NullCell == [ty |-> "null", num |-> 0, str |-> <<>>]

\* parseFloat(cell): the argument is first converted to a string
parseFloat(c) ==
    CASE c.ty = "number" -> (IF c.str = <<>> THEN Fin(c.num) ELSE [k |-> "inf", v |-> c.num])
      [] c.ty = "string" -> parseFloatStr(c.str)
      [] OTHER -> NaN

\* Number(cell), as the global isFinite(cell) applies it: the whole string
\* has to be a number ("" and white space are 0, null is 0)
ToNumber(c) ==
    CASE c.ty = "number" -> (IF c.str = <<>> THEN Fin(c.num) ELSE [k |-> "inf", v |-> c.num])
      [] c.ty = "null" -> Fin(0)
      [] OTHER ->
          LET \* t is the trimmed string, p its parseFloat, j where its
              \* digits start
              whole(t, p, j) ==
                  IF t = <<>> THEN Fin(0)
                  ELSE IF p.k = "inf" THEN
                       (IF Len(t) = j + 7 THEN p ELSE NaN)
                  ELSE IF p.k = "fin" /\ SkipDigits(t, j) = Len(t) + 1 THEN p
                  ELSE NaN
              trimmed(t) ==
                  whole(t, parseFloatStr(t), IF t # <<>> /\ t[1] \in {"-", "+"} THEN 2 ELSE 1)
          IN  trimmed(trim(c.str))

\* the global isFinite(cell)
isFinite(c) == ToNumber(c).k = "fin"

\* String(cell ?? '')
CellString(c) ==
    CASE c.ty = "string" -> c.str
      [] c.ty = "number" ->
          (IF c.str # <<>> THEN (IF c.num < 0 THEN <<"-">> ELSE <<>>) \o c.str
           ELSE IF c.num < 0 THEN <<"-">> \o NatToString(-c.num) ELSE NatToString(c.num))
      [] OTHER -> <<>>

\* `${cell}` of a template literal
Interpolate(c) ==
    IF c.ty = "null" THEN <<"u","n","d","e","f","i","n","e","d">> ELSE CellString(c)

\* the number x as a cell
CellOfNum(x) ==
    CASE x.k = "fin" -> NumCell(x.v)
      [] x.k = "inf" -> InfCell(x.v)
      [] OTHER -> NullCell

\* JavaScript truthiness of a cell
Truthy(c) ==
    CASE c.ty = "number" -> c.num # 0 \/ c.str # <<>>
      [] c.ty = "string" -> c.str # <<>>
      [] OTHER -> FALSE

HeaderIndex(headers, col) == {i \in 1..Len(headers) : headers[i] = col}
\* row[col]: undefined (modelled as null) when the row has no such key
Get(headers, row, col) ==
    LET at(ix) == IF ix = {} THEN NullCell ELSE row[Min(ix)]
    IN  at(HeaderIndex(headers, col))

\* Array.prototype.filter on a sequence
RECURSIVE SelectIdx(_, _, _)
SelectIdx(n, keep, i) ==
    IF i > n THEN <<>>
    ELSE (IF i \in keep THEN <<i>> ELSE <<>>) \o SelectIdx(n, keep, i + 1)
\* the elements of seq at the positions in keep, in order
FilterAt(seq, keep) ==
    LET at(ix) == [i \in 1..Len(ix) |-> seq[ix[i]]]
    IN  at(SelectIdx(Len(seq), keep, 1))
\* Array.prototype.slice(0, n)
slice0(seq, n) == SubSeq(seq, 1, IF n < Len(seq) THEN n ELSE Len(seq))


(***************************************************************************)
(* Numeric comparison as the sort comparators and the filters compute it   *)
(***************************************************************************)
\* the sign of a - b; NaN (0 here, as Array.prototype.sort reads it) when
\* either is NaN or both are the same infinity
SubSign(a, b) ==
    CASE a.k = "nan" \/ b.k = "nan" -> 0
      [] a.k = "inf" /\ b.k = "inf" -> (IF a.v = b.v THEN 0 ELSE a.v)
      [] a.k = "inf" -> a.v
      [] b.k = "inf" -> -b.v
      [] OTHER -> (IF a.v < b.v THEN -1 ELSE IF a.v > b.v THEN 1 ELSE 0)

\* a - b is NaN: the comparator gives the sort no order for the pair
SubIsNaN(a, b) ==
    a.k = "nan" \/ b.k = "nan" \/ (a.k = "inf" /\ b.k = "inf" /\ a.v = b.v)

\* a > b, a < b of JavaScript (false when either is NaN)
NumGreater(a, b) == a.k # "nan" /\ b.k # "nan" /\ SubSign(a, b) = 1
NumLess(a, b) == a.k # "nan" /\ b.k # "nan" /\ SubSign(a, b) = -1
\* a === b of two numbers
NumEqual(a, b) == a.k # "nan" /\ b.k # "nan" /\ a = b

\* Array.prototype.sort (stable) of seq under a consistent comparator:
\* cmp[i][j] is the sign of comparefn(seq[i], seq[j])
StableSort(seq, cmp) ==
    LET n == Len(seq)
        before(j, i) == cmp[j][i] < 0 \/ (cmp[j][i] = 0 /\ j < i)
        rank(i) == Cardinality({j \in 1..n : j # i /\ before(j, i)}) + 1
    IN  [p \in 1..n |-> seq[CHOOSE i \in 1..n : rank(i) = p]]

\* a sort that ignores the direction asked for: always descending
SortByColumn_descending(headers, rows, c, descending) ==
    LET byKey(key) ==
            StableSort(rows, [i \in 1..Len(rows) |-> [j \in 1..Len(rows) |->
                                 SubSign(key[j], key[i])]])
    IN  byKey([i \in 1..Len(rows) |-> parseFloat(Get(headers, rows[i], c))])

\* rows sorted by parseFloat of their cell at column c, descending
\* (b - a) or ascending (a - b); every key is a number here
SortByColumn(headers, rows, c, descending) ==
    LET byKey(key) ==
            StableSort(rows, [i \in 1..Len(rows) |-> [j \in 1..Len(rows) |->
                IF descending THEN SubSign(key[j], key[i]) ELSE SubSign(key[i], key[j])]])
    IN  byKey([i \in 1..Len(rows) |-> parseFloat(Get(headers, rows[i], c))])

(***************************************************************************)
(* Results.  A handler's text is kept as what it states: the handler that  *)
(* wrote it and one block per sheet it reports.  NoResult is null,         *)
(* EmptyText is the empty string (both falsy).                             *)
(***************************************************************************)
NoResult == [handler |-> "null", n |-> 0, blocks |-> <<>>]
EmptyText == [handler |-> "", n |-> 0, blocks |-> <<>>]
IsFalsy(r) == r.handler \in {"null", ""}
\* return hasResults ? result : none, of a handler that reports blocks
Returned(handler, n, blocks, none) ==
    IF blocks = <<>> THEN none ELSE [handler |-> handler, n |-> n, blocks |-> blocks]

\* a row as the object JSON.stringify writes: its keys and their values
Obj(headers, row) == [keys |-> headers, cells |-> row]
Objs(headers, rows) == [i \in 1..Len(rows) |-> Obj(headers, rows[i])]

(***************************************************************************)
(* src/unnamed/part_003: helpers                                           *)
(***************************************************************************)
identifierColumns_p3 ==
    << <<"n","a","m","e">>,
       <<"p","l","a","y","e","r">>,
       <<"p","o","k","e","m","o","n">>,
       <<"t","i","t","l","e">>,
       <<"p","r","o","d","u","c","t">>,
       <<"i","t","e","m">>,
       <<"i","d">> >>

\* seq.find(pred): the element at the first of the positions hits, where
\* pred holds; <<>> for undefined
FirstAt(seq, hits) == IF hits = {} THEN <<>> ELSE seq[Min(hits)]

\* the identifier column of the first row, searched among headers; keys are
\* the keys of the rows; <<>> stands for null
getIdentifierColumnName(rows, headers, keys) ==
    IF rows = <<>> THEN <<>>
    ELSE
      LET firstRow == rows[1]
          matching(idCol) ==
              FirstAt(headers, {ix \in 1..Len(headers) :
                  includes(toLowerCase(headers[ix]), idCol)})
          \* matchingHeader && firstRow[matchingHeader]
          usable(matchingHeader) ==
              matchingHeader # <<>> /\ Truthy(Get(keys, firstRow, matchingHeader))
          textual(cell) == cell.ty = "string" /\ isNaN(parseFloat(cell))
          \* good are the identifier columns with a usable header
          pick(good) ==
              IF good # {} THEN matching(identifierColumns_p3[Min(good)])
              ELSE FirstAt(headers, {ix \in 1..Len(headers) :
                      textual(Get(keys, firstRow, headers[ix]))})
      IN  pick({k \in 1..Len(identifierColumns_p3) : usable(matching(identifierColumns_p3[k]))})

keywords_p3 ==
    << [keyword |-> <<"s","c","o","r","e">>, target |-> <<"s","c","o","r","e">>],
       [keyword |-> <<"r","u","n","s">>, target |-> <<"r","u","n","s">>],
       [keyword |-> <<"c","e","n","t","u","r","y">>, target |-> <<"c","e","n","t","u","r","y">>],
       [keyword |-> <<"c","e","n","t","u","r","i","e","s">>, target |-> <<"c","e","n","t","u","r","y">>],
       [keyword |-> <<"a","t","t","a","c","k">>, target |-> <<"A","t","t","a","c","k">>],
       [keyword |-> <<"d","e","f","e","n","s","e">>, target |-> <<"D","e","f","e","n","s","e">>],
       [keyword |-> <<"h","p">>, target |-> <<"H","P">>],
       [keyword |-> <<"s","p","e","e","d">>, target |-> <<"S","p","e","e","d">>],
       [keyword |-> <<"s","a","l","e","s">>, target |-> <<"S","a","l","e","s">>],
       [keyword |-> <<"p","r","i","c","e">>, target |-> <<"P","r","i","c","e">>],
       [keyword |-> <<"r","e","v","e","n","u","e">>, target |-> <<"R","e","v","e","n","u","e">>] >>

\* The column a question is about; <<>> stands for null.  The question is
\* searched as it is handed in: the caller decides whether it is lower-cased.
findRelevantColumn_p3(q, columns, headers, rows) ==
    LET byKeyword(k) ==
            FirstAt(columns, {ix \in 1..Len(columns) :
                includes(toLowerCase(columns[ix]), toLowerCase(keywords_p3[k].target))})
        numeric(cell) == cell.ty # "null" /\ ~isNaN(parseFloat(cell))
        \* named are the columns the question names, kws the keywords of the
        \* question that have a column
        pick(named, kws) ==
            IF named # {} THEN columns[Min(named)]
            ELSE IF kws # {} THEN byKeyword(Min(kws))
            ELSE IF Len(rows) > 0 THEN
                FirstAt(columns, {ix \in 1..Len(columns) :
                    numeric(Get(headers, rows[1], columns[ix]))})
            ELSE <<>>
    IN  pick({i \in 1..Len(columns) : includes(q, toLowerCase(columns[i]))},
             {k \in 1..Len(keywords_p3) :
                 includes(q, keywords_p3[k].keyword) /\ byKeyword(k) # <<>>})

\* headers.filter(h => rows.some(row => !isNaN(parseFloat(row[h]))))
numericColumns_p3(headers, rows) ==
    FilterAt(headers, {i \in 1..Len(headers) :
        \E r \in 1..Len(rows) : ~isNaN(parseFloat(rows[r][i]))})

operators ==
    << [symbol |-> <<">">>, words |-> << <<">">>, <<"a","b","o","v","e">>, <<"o","v","e","r">>, <<"g","r","e","a","t","e","r"," ","t","h","a","n">>, <<"m","o","r","e"," ","t","h","a","n">> >>],
       [symbol |-> <<"<">>, words |-> << <<"<">>, <<"b","e","l","o","w">>, <<"u","n","d","e","r">>, <<"l","e","s","s"," ","t","h","a","n">> >>],
       [symbol |-> <<">","=">>, words |-> << <<">","=">>, <<"a","t"," ","l","e","a","s","t">>, <<"n","o","t"," ","l","e","s","s"," ","t","h","a","n">> >>],
       [symbol |-> <<"<","=">>, words |-> << <<"<","=">>, <<"a","t"," ","m","o","s","t">>, <<"n","o","t"," ","m","o","r","e"," ","t","h","a","n">> >>],
       [symbol |-> <<"=","=">>, words |-> << <<"=","=">>, <<"=">>, <<"i","s">>, <<"e","q","u","a","l"," ","t","o">>, <<"e","q","u","a","l","s">> >>] >>

\* the places where \bHEADER\s+WORD\s+(\d+\.?\d*)\b matches lq, each with
\* the place of its digits
P1Matches(lq, h, w) ==
    {i \in 1..Len(lq) :
        /\ OccursAt(lq, h, i)
        /\ WordBoundary(lq, i)
        /\ \E b \in {SkipSpaces(lq, i + Len(h))} :
              /\ b > i + Len(h)
              /\ OccursAt(lq, w, b)
              /\ \E d \in {SkipSpaces(lq, b + Len(w))} :
                    /\ d > b + Len(w)
                    /\ \E e \in {SkipDigits(lq, d)} : e > d /\ WordBoundary(lq, e)}
\* the digits that start at position d of lq, as a number
DigitsAt(lq, d) == DigitsValue(SubSeq(lq, d, SkipDigits(lq, d) - 1))
P1Value(lq, h, w) ==
    DigitsAt(lq, SkipSpaces(lq, SkipSpaces(lq, Min(P1Matches(lq, h, w)) + Len(h)) + Len(w)))

\* the places where \bWORD\s+(\d+\.?\d*)\s+HEADER matches lq
P2Matches(lq, h, w) ==
    {i \in 1..Len(lq) :
        /\ OccursAt(lq, w, i)
        /\ WordBoundary(lq, i)
        /\ \E d \in {SkipSpaces(lq, i + Len(w))} :
              /\ d > i + Len(w)
              /\ \E e \in {SkipDigits(lq, d)} :
                    /\ e > d
                    /\ \E f \in {SkipSpaces(lq, e)} : f > e /\ OccursAt(lq, h, f)}
P2Value(lq, h, w) ==
    DigitsAt(lq, SkipSpaces(lq, Min(P2Matches(lq, h, w)) + Len(w)))

NoCondition == [found |-> FALSE, column |-> <<>>, operator |-> <<>>, value |-> 0]

\* the extractor with pattern 2 tried before pattern 1 for each word
extractNumericFilterCondition_p2First(q, headers) ==
    LET lq == toLowerCase(q)
        maxW == 5
        rank(t) == ((t[1] * 10 + t[2]) * 10 + t[3]) * 10 + (3 - t[4])
        \* pattern 1 (t[4] = 1) or pattern 2 of header h and word w matches
        matches(t, h, w) ==
            IF t[4] = 1 THEN P1Matches(lq, h, w) # {} ELSE P2Matches(lq, h, w) # {}
        condition(t, h, w) ==
            [found |-> TRUE, column |-> headers[t[1]],
             operator |-> operators[t[2]].symbol,
             value |-> IF t[4] = 1 THEN P1Value(lq, h, w) ELSE P2Value(lq, h, w)]
        at(t) == condition(t, toLowerCase(headers[t[1]]), operators[t[2]].words[t[3]])
        first(tries) ==
            IF tries = {} THEN NoCondition
            ELSE at(CHOOSE x \in tries : \A y \in tries : rank(x) <= rank(y))
    IN  first({t \in (1..Len(headers)) \X (1..Len(operators)) \X (1..maxW) \X (1..2) :
                  /\ Len(headers[t[1]]) >= 1
                  /\ t[3] <= Len(operators[t[2]].words)
                  /\ matches(t, toLowerCase(headers[t[1]]), operators[t[2]].words[t[3]])})

\* the first match over the headers, then the operators, then each
\* operator's words, then the two word orders
extractNumericFilterCondition(q, headers) ==
    LET lq == toLowerCase(q)
        maxW == 5
        rank(t) == ((t[1] * 10 + t[2]) * 10 + t[3]) * 10 + t[4]
        \* pattern 1 (t[4] = 1) or pattern 2 of header h and word w matches
        matches(t, h, w) ==
            IF t[4] = 1 THEN P1Matches(lq, h, w) # {} ELSE P2Matches(lq, h, w) # {}
        condition(t, h, w) ==
            [found |-> TRUE, column |-> headers[t[1]],
             operator |-> operators[t[2]].symbol,
             value |-> IF t[4] = 1 THEN P1Value(lq, h, w) ELSE P2Value(lq, h, w)]
        at(t) == condition(t, toLowerCase(headers[t[1]]), operators[t[2]].words[t[3]])
        first(tries) ==
            IF tries = {} THEN NoCondition
            ELSE at(CHOOSE x \in tries : \A y \in tries : rank(x) <= rank(y))
    IN  first({t \in (1..Len(headers)) \X (1..Len(operators)) \X (1..maxW) \X (1..2) :
                  /\ Len(headers[t[1]]) >= 1
                  /\ t[3] <= Len(operators[t[2]].words)
                  /\ matches(t, toLowerCase(headers[t[1]]), operators[t[2]].words[t[3]])})


(***************************************************************************)
(* src/unnamed/part_003: the handlers                                      *)
(***************************************************************************)
NoChart == [type |-> "", title |-> <<>>, data |-> <<>>, xKey |-> <<>>, yKey |-> <<>>]

\* the comparison with > and < read as >= and <=
Satisfies_inclusive(rowValue, operator, value) ==
    /\ ~isNaN(rowValue)
    /\ CASE operator \in {<<">">>, <<">","=">>} -> NumGreater(rowValue, Fin(value)) \/ NumEqual(rowValue, Fin(value))
         [] operator \in {<<"<">>, <<"<","=">>} -> NumLess(rowValue, Fin(value)) \/ NumEqual(rowValue, Fin(value))
         [] operator = <<"=","=">> -> NumEqual(rowValue, Fin(value))
         [] OTHER -> FALSE

\* the comparison of processFilterQuery's switch
Satisfies(rowValue, operator, value) ==
    /\ ~isNaN(rowValue)
    /\ CASE operator = <<">">> -> NumGreater(rowValue, Fin(value))
         [] operator = <<"<">> -> NumLess(rowValue, Fin(value))
         [] operator = <<">","=">> -> NumGreater(rowValue, Fin(value)) \/ NumEqual(rowValue, Fin(value))
         [] operator = <<"<","=">> -> NumLess(rowValue, Fin(value)) \/ NumEqual(rowValue, Fin(value))
         [] operator = <<"=","=">> -> NumEqual(rowValue, Fin(value))
         [] OTHER -> FALSE

\* one sheet of processFilterQuery: <<>> when nothing is reported for it
FilterBlock_p3(sheet, cond, headers) ==
    LET rows == sheet.rows
        \* getIdentifierColumnName(filteredRows, headers) || headers[0]
        orFirst(found) == IF found # <<>> THEN found
                          ELSE IF headers # <<>> THEN headers[1] ELSE <<>>
        chartPayload(filteredRows) ==
            [type |-> "bar",
             title |-> Concat(<< <<"D","a","t","a"," ","w","h","e","r","e"," ">>, cond.column,
                                 <<" ">>, cond.operator, <<" ">>, NatToString(cond.value) >>),
             data |-> Objs(sheet.headers, filteredRows),
             xKey |-> orFirst(getIdentifierColumnName(filteredRows, headers, sheet.headers)),
             yKey |-> cond.column]
        report(filteredRows) ==
            IF Len(rows) = 0 \/ Len(filteredRows) = 0 THEN <<>>
            ELSE << [sheet |-> sheet.name, column |-> cond.column,
                     rows |-> Objs(sheet.headers, slice0(filteredRows, 20)),
                     value |-> NaN, chart |-> chartPayload(filteredRows)] >>
    IN  report(FilterAt(rows, {r \in 1..Len(rows) :
            Satisfies(parseFloat(Get(sheet.headers, rows[r], cond.column)), cond.operator, cond.value)}))

processFilterQuery_p3(q, d, headers) ==
    LET filter(numericCondition) ==
            IF ~numericCondition.found THEN NoResult
            ELSE Returned("Filter", 0,
                     Concat([s \in 1..Len(d.sheets) |->
                         FilterBlock_p3(d.sheets[s], numericCondition, headers)]),
                     NoResult)
    IN  filter(extractNumericFilterCondition(q, headers))

NoEntity == [found |-> FALSE, column |-> <<>>, value |-> <<>>]

\* a character of the class [\w\s\.'"-]
IsEntityChar(c) == IsWordChar(c) \/ IsSpace(c) \/ c \in {".", "'", "\"", "-"}
entityWords == << <<"o","f">>, <<"f","o","r">>, <<"i","n">>, <<"b","y">> >>

\* question.match(/(?:of|for|in|by)\s+([\w\s\.'"-]+)/): the captured group
\* of the leftmost match, [found |-> FALSE] when there is none
EntityMatch(q) ==
    LET after(i) == Min({i + Len(entityWords[k]) : k \in {k \in 1..Len(entityWords) : OccursAt(q, entityWords[k], i)}})
        \* the white space that starts at position a ends before position s
        spaced(a, s) ==
            /\ a <= Len(q) /\ IsSpace(q[a])
            /\ (s <= Len(q) /\ IsEntityChar(q[s])) \/ s - a >= 2
        group(from) ==
            SubSeq(q, from, Min({j \in from..(Len(q) + 1) :
                                    j = Len(q) + 1 \/ ~IsEntityChar(q[j])}) - 1)
        captured(a, s) ==
            [found |-> TRUE,
             group |-> group(IF s <= Len(q) /\ IsEntityChar(q[s]) THEN s ELSE a + 1)]
        from(a) == captured(a, SkipSpaces(q, a))
        leftmost(starts) ==
            IF starts = {} THEN [found |-> FALSE, group |-> <<>>]
            ELSE from(after(Min(starts)))
    IN  leftmost({i \in 1..Len(q) :
            /\ \E k \in 1..Len(entityWords) : OccursAt(q, entityWords[k], i)
            /\ \E a \in {after(i)} : spaced(a, SkipSpaces(q, a))})

extractFilterEntity(q, headers, rows) ==
    LET entity(queryEntity, col) ==
            IF col = <<>> THEN NoEntity
            ELSE [found |-> TRUE, column |-> col, value |-> queryEntity]
        \* the first text column with a cell that includes queryEntity
        search(queryEntity, textColumns) ==
            entity(queryEntity,
                   FirstAt(textColumns, {ix \in 1..Len(textColumns) :
                       \E r \in 1..Len(rows) :
                           includes(toLowerCase(CellString(Get(headers, rows[r], textColumns[ix]))),
                                    toLowerCase(queryEntity))}))
        named(m, queryEntity) ==
            IF ~m.found \/ m.group = <<>> \/ queryEntity = <<>> THEN NoEntity
            ELSE search(queryEntity,
                        FilterAt(headers, {i \in 1..Len(headers) :
                            rows # <<>> /\ rows[1][i].ty = "string"}))
        matched(m) == named(m, trim(m.group))
    IN  matched(EntityMatch(q))

\* the value that names a row: a cell of the row (of whatever type it
\* has) or the placeholder text
getRowIdentifier_p3(row, headers) ==
    LET matching(idCol) ==
            FirstAt(headers, {ix \in 1..Len(headers) :
                includes(toLowerCase(headers[ix]), idCol)})
        \* matchingHeader && row[matchingHeader]
        usable(matchingHeader) ==
            matchingHeader # <<>> /\ Truthy(Get(headers, row, matchingHeader))
        textual(cell) == cell.ty = "string" /\ isNaN(parseFloat(cell))
        second == IF Len(headers) >= 2 THEN headers[2] ELSE <<"u","n","d","e","f","i","n","e","d">>
        fallback(firstTextColumn) ==
            IF firstTextColumn # <<>> THEN Get(headers, row, firstTextColumn)
            ELSE StrCell(Concat(<< <<"R","o","w"," ","w","i","t","h"," ">>, second, <<":"," ">>,
                                   Interpolate(IF Len(headers) >= 2 THEN row[2] ELSE NullCell) >>))
        \* good are the identifier columns with a usable header
        pick(good) ==
            IF good # {} THEN Get(headers, row, matching(identifierColumns_p3[Min(good)]))
            ELSE fallback(FirstAt(headers, {ix \in 1..Len(headers) :
                              textual(Get(headers, row, headers[ix]))}))
    IN  pick({k \in 1..Len(identifierColumns_p3) : usable(matching(identifierColumns_p3[k]))})

maxKeywords ==
    << <<"m","o","s","t">>,
       <<"h","i","g","h","e","s","t">>,
       <<"m","a","x","i","m","u","m">>,
       <<"b","i","g","g","e","s","t">>,
       <<"l","a","r","g","e","s","t">>,
       <<"t","o","p">> >>
minKeywords ==
    << <<"l","e","a","s","t">>,
       <<"l","o","w","e","s","t">>,
       <<"m","i","n","i","m","u","m">>,
       <<"s","m","a","l","l","e","s","t">>,
       <<"b","o","t","t","o","m">> >>

includesAny(s, words) == \E k \in 1..Len(words) : includes(s, words[k])

\* / (top|bottom)\s+\d+/.test(lq)
isTopBottomN(lq) ==
    \E i \in 1..Len(lq) :
        /\ lq[i] = " "
        /\ \E w \in {<<"t","o","p">>, <<"b","o","t","t","o","m">>} :
              /\ OccursAt(lq, w, i + 1)
              /\ \E d \in {SkipSpaces(lq, i + 1 + Len(w))} :
                    d > i + 1 + Len(w) /\ SkipDigits(lq, d) > d

\* the scan of processMaxMinQuery: the index of targetRow in workingRows,
\* 0 when no row is taken
\* (with >= and <= for > and <, the last of equal values is taken)
ScanExtreme_lastOnTies(headers, workingRows, metricColumn, isMaxOperation) ==
    LET beats(x, y) == IF isMaxOperation THEN NumGreater(x, y) ELSE NumLess(x, y)
        first(final) == IF final = {} THEN 0 ELSE Min(final)
        scan(val) ==
            first({i \in 1..Len(workingRows) :
                      /\ ~isNaN(val[i])
                      /\ \A j \in 1..Len(workingRows) :
                            ~isNaN(val[j]) => /\ ~beats(val[j], val[i])
                                              /\ (j > i => beats(val[i], val[j]))})
    IN  scan([i \in 1..Len(workingRows) |-> parseFloat(Get(headers, workingRows[i], metricColumn))])
ScanExtreme(headers, workingRows, metricColumn, isMaxOperation) ==
    LET start == IF isMaxOperation THEN NegInf ELSE PosInf
        beats(x, y) == IF isMaxOperation THEN NumGreater(x, y) ELSE NumLess(x, y)
        first(final) == IF final = {} THEN 0 ELSE Min(final)
        \* row i is taken and stays: it beats the start and every earlier row
        \* does not equal or beat it, no later row beats it
        scan(val) ==
            first({i \in 1..Len(workingRows) :
                      /\ ~isNaN(val[i])
                      /\ beats(val[i], start)
                      /\ \A j \in 1..Len(workingRows) :
                            ~isNaN(val[j]) => /\ ~beats(val[j], val[i])
                                              /\ (j < i => beats(val[i], val[j]))})
    IN  scan([i \in 1..Len(workingRows) |-> parseFloat(Get(headers, workingRows[i], metricColumn))])

MaxMinBlock(sheet, lq) ==
    LET rows == sheet.rows
        headers == sheet.headers
        numericColumns == FilterAt(headers, {i \in 1..Len(headers) :
            \E r \in 1..Len(rows) : rows[r][i].ty # "null" /\ ~isNaN(parseFloat(rows[r][i]))})
        isMaxOperation == includesAny(lq, maxKeywords)
        \* if (targetRow) { ... }: what is written for the row taken
        report(metricColumn, xAxisLabel, targetRow, targetValue, identifier) ==
            LET point == IF xAxisLabel = metricColumn
                         THEN [keys |-> <<metricColumn>>, cells |-> <<CellOfNum(targetValue)>>]
                         ELSE [keys |-> <<xAxisLabel, metricColumn>>,
                               cells |-> <<identifier, CellOfNum(targetValue)>>]
                chartPayload ==
                    [type |-> "bar",
                     title |-> Concat(<< IF isMaxOperation THEN <<"H","i","g","h","e","s","t"," ">>
                                         ELSE <<"L","o","w","e","s","t"," ">>,
                                         metricColumn, <<" ","f","o","r"," ">>, Interpolate(identifier) >>),
                     data |-> <<point>>, xKey |-> xAxisLabel, yKey |-> metricColumn]
            IN  << [sheet |-> sheet.name, column |-> metricColumn,
                    rows |-> << Obj(headers, targetRow) >>,
                    value |-> targetValue, chart |-> chartPayload] >>
        \* the scan over workingRows, t the index of the row it leaves in targetRow
        scan(metricColumn, filter, workingRows, t) ==
            IF Len(workingRows) = 0 \/ t = 0 THEN <<>>
            ELSE report(metricColumn,
                        IF filter.found THEN filter.column ELSE <<"I","d","e","n","t","i","f","i","e","r">>,
                        workingRows[t],
                        parseFloat(Get(headers, workingRows[t], metricColumn)),
                        getRowIdentifier_p3(workingRows[t], headers))
        narrowed(metricColumn, filter, workingRows) ==
            scan(metricColumn, filter, workingRows,
                 ScanExtreme(headers, workingRows, metricColumn, isMaxOperation))
        analysis(metricColumn, filter) ==
            IF metricColumn = <<>> THEN <<>>
            ELSE narrowed(metricColumn, filter,
                    IF filter.found
                    THEN FilterAt(rows, {r \in 1..Len(rows) :
                            includes(toLowerCase(CellString(Get(headers, rows[r], filter.column))),
                                     toLowerCase(filter.value))})
                    ELSE rows)
    IN  IF Len(rows) = 0 THEN <<>>
        ELSE analysis(findRelevantColumn_p3(lq, numericColumns, headers, rows),
                      extractFilterEntity(lq, headers, rows))

processMaxMinQuery(q, d) ==
    LET lowerQuestion == toLowerCase(q)
        hasKeyword == includesAny(lowerQuestion, maxKeywords \o minKeywords)
    IN  IF ~hasKeyword \/ isTopBottomN(lowerQuestion) THEN NoResult
        ELSE Returned("MaxMin", 0,
                 Concat([s \in 1..Len(d.sheets) |-> MaxMinBlock(d.sheets[s], lowerQuestion)]),
                 NoResult)

\* one sheet of processTopNQuery (descending) or processBottomNQuery
RankBlock_p3(sheet, q, n, descending) ==
    LET rows == sheet.rows
        headers == sheet.headers
        numericColumns == numericColumns_p3(headers, rows)
        \* what is written for the rows kept, sorted and sliced
        report(relevantColumn, sorted) ==
            LET found == getIdentifierColumnName(sorted, headers, headers)
                identifierColumn == IF found # <<>> THEN found ELSE headers[1]
                chartPayload ==
                    [type |-> "bar",
                     title |-> Concat(<< IF descending THEN <<"T","o","p"," ">>
                                         ELSE <<"B","o","t","t","o","m"," ">>,
                                         NatToString(n), <<" ","b","y"," ">>, relevantColumn >>),
                     data |-> Objs(headers, sorted), xKey |-> identifierColumn, yKey |-> relevantColumn]
            IN  << [sheet |-> sheet.name, column |-> relevantColumn,
                    rows |-> Objs(headers, sorted),
                    value |-> NaN, chart |-> chartPayload] >>
        rank(relevantColumn) ==
            IF relevantColumn = <<>> THEN <<>>
            ELSE report(relevantColumn,
                    slice0(SortByColumn(headers,
                              FilterAt(rows, {r \in 1..Len(rows) :
                                  /\ Get(headers, rows[r], relevantColumn).ty # "null"
                                  /\ ~isNaN(parseFloat(Get(headers, rows[r], relevantColumn)))}),
                              relevantColumn, descending), n))
    IN  IF Len(rows) = 0 \/ numericColumns = <<>> THEN <<>>
        ELSE rank(findRelevantColumn_p3(q, numericColumns, headers, rows))

processTopNQuery_p3(q, d, topN) ==
    Returned("TopN", topN,
        Concat([s \in 1..Len(d.sheets) |-> RankBlock_p3(d.sheets[s], q, topN, TRUE)]),
        EmptyText)

processBottomNQuery_p3(q, d, bottomN) ==
    Returned("BottomN", bottomN,
        Concat([s \in 1..Len(d.sheets) |-> RankBlock_p3(d.sheets[s], q, bottomN, FALSE)]),
        EmptyText)


(***************************************************************************)
(* src/unnamed/part_003: the router                                        *)
(***************************************************************************)
\* lq.match(/WORD\s+(\d+)/) for each WORD of words: the leftmost match
\* and parseInt of its digits
WordNumberMatch(lq, words) ==
    LET hit(i, w) ==
            /\ OccursAt(lq, w, i)
            /\ \E d \in {SkipSpaces(lq, i + Len(w))} :
                  d > i + Len(w) /\ SkipDigits(lq, d) > d
        \* the match of word w at position i
        match(i, w) == [found |-> TRUE, n |-> DigitsAt(lq, SkipSpaces(lq, i + Len(w)))]
        at(i) == match(i, words[Min({k \in 1..Len(words) : hit(i, words[k])})])
        leftmost(starts) ==
            IF starts = {} THEN [found |-> FALSE, n |-> 0] ELSE at(Min(starts))
    IN  leftmost({i \in 1..Len(lq) : \E k \in 1..Len(words) : hit(i, words[k])})

topMatch(lq) == WordNumberMatch(lq, << <<"t","o","p">> >>)
bottomMatch(lq) ==
    WordNumberMatch(lq, << <<"b","o","t","t","o","m">>, <<"w","o","r","s","t">>,
                           <<"l","o","w","e","s","t">> >>)

\* /(pie|bar|line)\s*chart/.test(lq)
isSimpleChartRequest(lq) ==
    \E i \in 1..Len(lq) :
        \E w \in {<<"p","i","e">>, <<"b","a","r">>, <<"l","i","n","e">>} :
            /\ OccursAt(lq, w, i)
            /\ OccursAt(lq, <<"c","h","a","r","t">>, SkipSpaces(lq, i + Len(w)))

complexKeywords ==
    << <<"t","o","p">>,
       <<"b","o","t","t","o","m">>,
       <<"h","i","g","h","e","s","t">>,
       <<"l","o","w","e","s","t">>,
       <<"m","o","s","t">>,
       <<"l","e","a","s","t">>,
       <<"f","i","l","t","e","r">>,
       <<"s","o","r","t">>,
       <<"o","r","d","e","r">>,
       <<"r","a","n","k">> >>
\* /(top|bottom|highest|lowest|most|least|filter|sort|order|rank)/.test(lq)
isComplexQuery(lq) == includesAny(lq, complexKeywords)

RECURSIVE Unique(_)
\* [...new Set(seq)]: the first occurrence of each element, in order
Unique(seq) ==
    IF seq = <<>> THEN <<>>
    ELSE LET front == Unique(SubSeq(seq, 1, Len(seq) - 1))
             last == seq[Len(seq)]
         IN  IF \E i \in 1..Len(front) : front[i] = last THEN front ELSE Append(front, last)

\* the headers of every sheet that has a row
allHeaders(d) ==
    Unique(Concat([i \in 1..Len(d.sheets) |->
        IF Len(d.sheets[i].rows) > 0 THEN d.sheets[i].headers ELSE <<>>]))

\* the router with the numeric filter tried before the other handlers
preprocessQuery_filterFirst(q, d) ==
    LET lq == toLowerCase(q)
        \* if (maxMinResult) return maxMinResult; then the patterns in turn
        route(maxMinResult, top, bottom) ==
            IF ~IsFalsy(maxMinResult) THEN maxMinResult
            ELSE IF top.found THEN processTopNQuery_p3(q, d, top.n)
            ELSE IF bottom.found THEN processBottomNQuery_p3(q, d, bottom.n)
            ELSE NoResult
    IN  IF extractNumericFilterCondition(q, allHeaders(d)).found
        THEN processFilterQuery_p3(q, d, allHeaders(d))
        ELSE IF isSimpleChartRequest(lq) /\ ~isComplexQuery(lq) THEN NoResult
        ELSE route(processMaxMinQuery(q, d), topMatch(lq), bottomMatch(lq))

preprocessQuery_p3(q, d) ==
    LET lowerQuestion == toLowerCase(q)
        \* if (maxMinResult) return maxMinResult; then the patterns in turn
        route(maxMinResult, top, bottom) ==
            IF ~IsFalsy(maxMinResult) THEN maxMinResult
            ELSE IF top.found THEN processTopNQuery_p3(q, d, top.n)
            ELSE IF bottom.found THEN processBottomNQuery_p3(q, d, bottom.n)
            ELSE IF extractNumericFilterCondition(q, allHeaders(d)).found
                 THEN processFilterQuery_p3(q, d, allHeaders(d))
            ELSE NoResult
    IN  IF isSimpleChartRequest(lowerQuestion) /\ ~isComplexQuery(lowerQuestion) THEN NoResult
        ELSE route(processMaxMinQuery(q, d), topMatch(lowerQuestion), bottomMatch(lowerQuestion))


(***************************************************************************)
(* src/src/utils/openai.ts: helpers                                        *)
(***************************************************************************)
keywords_openai ==
    << [keyword |-> <<"s","a","l","e","s">>,
        variations |-> << <<"s","a","l","e","s">>, <<"r","e","v","e","n","u","e">>, <<"a","m","o","u","n","t">>, <<"t","o","t","a","l">>, <<"v","a","l","u","e">>, <<"s","o","l","d">> >>],
       [keyword |-> <<"p","r","i","c","e">>,
        variations |-> << <<"p","r","i","c","e">>, <<"c","o","s","t">>, <<"a","m","o","u","n","t">>, <<"v","a","l","u","e">>, <<"r","a","t","e">> >>],
       [keyword |-> <<"q","u","a","n","t","i","t","y">>,
        variations |-> << <<"q","u","a","n","t","i","t","y">>, <<"q","t","y">>, <<"c","o","u","n","t">>, <<"n","u","m","b","e","r">>, <<"u","n","i","t","s">> >>],
       [keyword |-> <<"r","e","v","e","n","u","e">>,
        variations |-> << <<"r","e","v","e","n","u","e">>, <<"s","a","l","e","s">>, <<"i","n","c","o","m","e">>, <<"e","a","r","n","i","n","g","s">>, <<"t","u","r","n","o","v","e","r">> >>],
       [keyword |-> <<"p","r","o","f","i","t">>,
        variations |-> << <<"p","r","o","f","i","t">>, <<"m","a","r","g","i","n">>, <<"e","a","r","n","i","n","g","s">>, <<"g","a","i","n">> >>],
       [keyword |-> <<"s","c","o","r","e">>,
        variations |-> << <<"s","c","o","r","e">>, <<"r","a","t","i","n","g">>, <<"p","o","i","n","t","s">>, <<"g","r","a","d","e">> >>],
       [keyword |-> <<"a","g","e">>,
        variations |-> << <<"a","g","e">>, <<"y","e","a","r","s">>, <<"o","l","d">> >>],
       [keyword |-> <<"w","e","i","g","h","t">>,
        variations |-> << <<"w","e","i","g","h","t">>, <<"m","a","s","s">>, <<"k","g">>, <<"p","o","u","n","d","s">> >>],
       [keyword |-> <<"h","e","i","g","h","t">>,
        variations |-> << <<"h","e","i","g","h","t">>, <<"l","e","n","g","t","h">>, <<"t","a","l","l">>, <<"c","m">> >>],
       [keyword |-> <<"d","a","t","e">>,
        variations |-> << <<"d","a","t","e">>, <<"t","i","m","e">>, <<"w","h","e","n">>, <<"d","a","y">>, <<"m","o","n","t","h">>, <<"y","e","a","r">> >>],
       [keyword |-> <<"n","a","m","e">>,
        variations |-> << <<"n","a","m","e">>, <<"t","i","t","l","e">>, <<"l","a","b","e","l">> >>],
       [keyword |-> <<"c","a","t","e","g","o","r","y">>,
        variations |-> << <<"c","a","t","e","g","o","r","y">>, <<"t","y","p","e">>, <<"c","l","a","s","s">>, <<"g","r","o","u","p">> >>],
       [keyword |-> <<"r","e","g","i","o","n">>,
        variations |-> << <<"r","e","g","i","o","n">>, <<"a","r","e","a">>, <<"l","o","c","a","t","i","o","n">>, <<"p","l","a","c","e">> >>],
       [keyword |-> <<"p","r","o","d","u","c","t">>,
        variations |-> << <<"p","r","o","d","u","c","t">>, <<"i","t","e","m">>, <<"g","o","o","d","s">> >>],
       [keyword |-> <<"c","u","s","t","o","m","e","r">>,
        variations |-> << <<"c","u","s","t","o","m","e","r">>, <<"c","l","i","e","n","t">>, <<"u","s","e","r">> >>],
       [keyword |-> <<"o","r","d","e","r">>,
        variations |-> << <<"o","r","d","e","r">>, <<"p","u","r","c","h","a","s","e">>, <<"t","r","a","n","s","a","c","t","i","o","n">> >>] >>

\* the first column a keyword of the question stands for, else the first
\* column; <<>> stands for null
findRelevantColumn_openai(q, columns) ==
    LET lowerQuestion == toLowerCase(q)
        col(t) == FirstAt(columns, {ix \in 1..Len(columns) :
                      includes(toLowerCase(columns[ix]), keywords_openai[t[1]].variations[t[2]])})
        maxV == 6
        \* hits are the keywords of the question and their variations that
        \* have a column
        pick(hits) ==
            IF hits # {}
            THEN col(CHOOSE t \in hits : \A u \in hits : t[1] * 10 + t[2] <= u[1] * 10 + u[2])
            ELSE IF columns # <<>> THEN columns[1] ELSE <<>>
    IN  pick({t \in (1..Len(keywords_openai)) \X (1..maxV) :
                 /\ t[2] <= Len(keywords_openai[t[1]].variations)
                 /\ includes(lowerQuestion, keywords_openai[t[1]].keyword)
                 /\ col(t) # <<>>})

identifierColumns_openai ==
    << <<"n","a","m","e">>,
       <<"t","i","t","l","e">>,
       <<"p","r","o","d","u","c","t">>,
       <<"i","t","e","m">>,
       <<"c","a","t","e","g","o","r","y">>,
       <<"r","e","g","i","o","n">>,
       <<"i","d">> >>

\* the value that names a row: a cell of the row (of whatever type it
\* has) or the text 'Item'
getRowIdentifier_openai(row, headers) ==
    LET matching(idCol) ==
            FirstAt(headers, {ix \in 1..Len(headers) :
                includes(toLowerCase(headers[ix]), idCol)})
        \* matchingHeader && row[matchingHeader]
        usable(matchingHeader) ==
            matchingHeader # <<>> /\ Truthy(Get(headers, row, matchingHeader))
        textual(cell) == isNaN(parseFloat(cell)) \/ ~isFinite(cell)
        fallback(firstTextColumn) ==
            IF firstTextColumn # <<>> THEN Get(headers, row, firstTextColumn)
            ELSE StrCell(<<"I","t","e","m">>)
        \* good are the identifier columns with a usable header
        pick(good) ==
            IF good # {} THEN Get(headers, row, matching(identifierColumns_openai[Min(good)]))
            ELSE fallback(FirstAt(headers, {ix \in 1..Len(headers) :
                              textual(Get(headers, row, headers[ix]))}))
    IN  pick({k \in 1..Len(identifierColumns_openai) :
                 usable(matching(identifierColumns_openai[k]))})

\* headers.filter(h => rows.some(row => !isNaN(parseFloat(row[h])) && isFinite(row[h])))
numericColumns_openai(headers, rows) ==
    FilterAt(headers, {i \in 1..Len(headers) :
        \E r \in 1..Len(rows) : ~isNaN(parseFloat(rows[r][i])) /\ isFinite(rows[r][i])})

\* Array.prototype.sort under the comparator of the parseFloat keys.  A
\* comparator that returns NaN for a pair is not consistent and the order
\* is then implementation-defined: the permutation o decides it.
SortByColumnWith(headers, rows, c, descending, o) ==
    LET n == Len(rows)
        \* the rows in the order of o
        permuted(ix) == [p \in 1..n |-> rows[ix[p]]]
        sorted(key) ==
            IF \E i, j \in 1..n : i # j /\ SubIsNaN(key[i], key[j])
            THEN permuted(FilterAt(o, {p \in 1..Len(o) : o[p] <= n}))
            ELSE SortByColumn(headers, rows, c, descending)
    IN  sorted([i \in 1..n |-> parseFloat(Get(headers, rows[i], c))])

(***************************************************************************)
(* src/src/utils/openai.ts: the handlers                                   *)
(***************************************************************************)
RECURSIVE SumSeq(_)
\* values.reduce((a, b) => a + b, 0) of finite numbers
SumSeq(vs) == IF vs = <<>> THEN 0 ELSE SumSeq(SubSeq(vs, 1, Len(vs) - 1)) + vs[Len(vs)]

\* (sum / count).toFixed(2), as hundredths
Avg100(sum, count) ==
    IF sum >= 0 THEN (200 * sum + count) \div (2 * count)
    ELSE -((200 * (-sum) + count) \div (2 * count))

\* the statistics of one column: parseFloat of every row, NaN and the
\* infinities dropped
ColumnStats(headers, rows, column) ==
    LET stats(values, sum) ==
            IF values = <<>> THEN <<>>
            ELSE << [column |-> column,
                     sum |-> sum,
                     avg100 |-> Avg100(sum, Len(values)),
                     max |-> CHOOSE x \in {values[i] : i \in 1..Len(values)} :
                                \A i \in 1..Len(values) : values[i] <= x,
                     min |-> Min({values[i] : i \in 1..Len(values)}),
                     count |-> Len(values)] >>
        summed(values) == stats(values, SumSeq(values))
        kept(finite) == summed([i \in 1..Len(finite) |-> finite[i].v])
        filtered(parsed) == kept(FilterAt(parsed, {r \in 1..Len(rows) : parsed[r].k = "fin"}))
    IN  filtered([r \in 1..Len(rows) |-> parseFloat(Get(headers, rows[r], column))])

AggregationBlock(sheet) ==
    LET numericColumns == numericColumns_openai(sheet.headers, sheet.rows)
    IN  IF Len(sheet.rows) = 0 \/ numericColumns = <<>> THEN <<>>
        ELSE << [sheet |-> sheet.name,
                 stats |-> Concat([c \in 1..Len(numericColumns) |->
                              ColumnStats(sheet.headers, sheet.rows, numericColumns[c])])] >>

processAggregationQuery(q, d) ==
    [handler |-> "Aggregation", n |-> 0, blocks |-> Concat([s \in 1..Len(d.sheets) |-> AggregationBlock(d.sheets[s])])]

\* a + b of JavaScript numbers
NumAdd(a, b) ==
    CASE a.k = "nan" \/ b.k = "nan" -> NaN
      [] a.k = "inf" /\ b.k = "inf" -> (IF a.v = b.v THEN a ELSE NaN)
      [] a.k = "inf" -> a
      [] b.k = "inf" -> b
      [] OTHER -> Fin(a.v + b.v)

RECURSIVE SumNums(_)
SumNums(xs) == IF xs = <<>> THEN Fin(0) ELSE NumAdd(SumNums(SubSeq(xs, 1, Len(xs) - 1)), xs[Len(xs)])

ComparisonBlock(sheet, q) ==
    LET rows == sheet.rows
        headers == sheet.headers
        categoryColumns == FilterAt(headers, {i \in 1..Len(headers) :
            /\ rows[1][i].ty = "string"
            /\ 2 * Cardinality({rows[r][i] : r \in 1..Len(rows)}) < Len(rows)})
        numericColumns == numericColumns_openai(headers, rows)
        \* the groups of the rows used, by the category names in their order
        report(categoryCol, numericCol, value, category, used, names) ==
            LET group(name) ==
                    LET members == {r \in used : CellString(category[r]) = name}
                        values == FilterAt(value, members)
                    IN  [category |-> name, sum |-> SumNums(values), count |-> Len(values)]
            IN  << [sheet |-> sheet.name, column |-> numericCol, categoryCol |-> categoryCol,
                    groups |-> [g \in 1..Len(names) |-> group(names[g])]] >>
        grouped(categoryCol, numericCol, value, category, used) ==
            report(categoryCol, numericCol, value, category, used,
                   Unique([i \in 1..Len(FilterAt(category, used)) |->
                              CellString(FilterAt(category, used)[i])]))
        parsed(categoryCol, numericCol, value, category) ==
            grouped(categoryCol, numericCol, value, category,
                    {r \in 1..Len(rows) : ~isNaN(value[r]) /\ Truthy(category[r])})
        compare(categoryCol, found) ==
            LET numericCol == IF found # <<>> THEN found ELSE numericColumns[1]
            IN  parsed(categoryCol, numericCol,
                       [r \in 1..Len(rows) |-> parseFloat(Get(headers, rows[r], numericCol))],
                       [r \in 1..Len(rows) |-> Get(headers, rows[r], categoryCol)])
    IN  IF Len(rows) = 0 THEN <<>>
        ELSE IF categoryColumns = <<>> \/ numericColumns = <<>> THEN <<>>
        ELSE compare(categoryColumns[1], findRelevantColumn_openai(q, numericColumns))

processComparisonQuery(q, d) ==
    [handler |-> "Comparison", n |-> 0,
     blocks |-> Concat([s \in 1..Len(d.sheets) |-> ComparisonBlock(d.sheets[s], q)])]

\* Date.parse of a cell, as a day count key: a string "YYYY-MM-DD" is a
\* date, any other text is NaN.  (What Date.parse makes of other formats is
\* implementation-defined; the model's sheets hold none.)
DateParse(c) ==
    LET s == c.str
        num(a, b) == DigitsValue(SubSeq(s, a, b))
    IN  IF /\ c.ty = "string"
           /\ Len(s) = 10
           /\ s[5] = "-" /\ s[8] = "-"
           /\ \A i \in {1, 2, 3, 4, 6, 7, 9, 10} : IsDigit(s[i])
           /\ num(6, 7) \in 1..12
           /\ num(9, 10) \in 1..31
        THEN Fin((num(1, 4) * 12 + num(6, 7)) * 31 + num(9, 10))
        ELSE NaN

TrendBlock(sheet, q) ==
    LET rows == sheet.rows
        headers == sheet.headers
        dateColumns == FilterAt(headers, {i \in 1..Len(headers) :
            \E r \in 1..Len(rows) : ~isNaN(DateParse(rows[r][i]))})
        numericColumns == numericColumns_openai(headers, rows)
        report(dateCol, numericCol, sorted) ==
            LET sortedData == [i \in 1..Len(sorted) |->
                                  [date |-> Get(headers, sorted[i], dateCol).str,
                                   value |-> parseFloat(Get(headers, sorted[i], numericCol))]]
            IN  << [sheet |-> sheet.name, column |-> numericCol, dateCol |-> dateCol,
                    points |-> slice0(sortedData, 10), total |-> Len(sortedData)] >>
        \* kept are the rows whose date and value parse, time their dates
        ordered(dateCol, numericCol, kept, time) ==
            report(dateCol, numericCol,
                   StableSort(kept, [i \in 1..Len(kept) |-> [j \in 1..Len(kept) |->
                                        SubSign(time[i], time[j])]]))
        filtered(dateCol, numericCol, kept) ==
            ordered(dateCol, numericCol, kept,
                    [i \in 1..Len(kept) |-> DateParse(Get(headers, kept[i], dateCol))])
        trend(dateCol, found) ==
            LET numericCol == IF found # <<>> THEN found ELSE numericColumns[1]
            IN  filtered(dateCol, numericCol,
                    FilterAt(rows, {r \in 1..Len(rows) :
                        /\ ~isNaN(DateParse(Get(headers, rows[r], dateCol)))
                        /\ ~isNaN(parseFloat(Get(headers, rows[r], numericCol)))}))
    IN  IF Len(rows) = 0 THEN <<>>
        ELSE IF dateColumns = <<>> \/ numericColumns = <<>> THEN <<>>
        ELSE trend(dateColumns[1], findRelevantColumn_openai(q, numericColumns))

processTrendQuery(q, d) ==
    [handler |-> "Trend", n |-> 0, blocks |-> Concat([s \in 1..Len(d.sheets) |-> TrendBlock(d.sheets[s], q)])]

\* row[c] != null && row[c] !== ''
Present(c) == c.ty # "null" /\ ~(c.ty = "string" /\ c.str = <<>>)

\* one sheet of processTopNQuery, processBottomNQuery (shown = n) and
\* processSortQuery (shown = 20)
RankBlock_openai(sheet, q, shown, descending, o) ==
    LET rows == sheet.rows
        headers == sheet.headers
        numericColumns == numericColumns_openai(headers, rows)
        report(relevantColumn, sorted) ==
            << [sheet |-> sheet.name, column |-> relevantColumn,
                rows |-> Objs(headers, sorted),
                lines |-> [i \in 1..Len(sorted) |->
                             [identifier |-> getRowIdentifier_openai(sorted[i], headers),
                              shown |-> Get(headers, sorted[i], relevantColumn)]]] >>
        rank(relevantColumn) ==
            IF relevantColumn = <<>> THEN <<>>
            ELSE report(relevantColumn,
                    slice0(SortByColumnWith(headers,
                              FilterAt(rows, {r \in 1..Len(rows) :
                                  Present(Get(headers, rows[r], relevantColumn))}),
                              relevantColumn, descending, o), shown))
    IN  IF Len(rows) = 0 \/ numericColumns = <<>> THEN <<>>
        ELSE rank(findRelevantColumn_openai(q, numericColumns))

processTopNQuery_openai(q, d, topN, o) ==
    [handler |-> "TopN", n |-> topN,
     blocks |-> Concat([s \in 1..Len(d.sheets) |-> RankBlock_openai(d.sheets[s], q, topN, TRUE, o)])]

processBottomNQuery_openai(q, d, bottomN, o) ==
    [handler |-> "BottomN", n |-> bottomN,
     blocks |-> Concat([s \in 1..Len(d.sheets) |-> RankBlock_openai(d.sheets[s], q, bottomN, FALSE, o)])]

processSortQuery(q, d, o) ==
    LET lq == toLowerCase(q)
        isAscending == \/ includes(lq, <<"a","s","c","e","n","d","i","n","g">>)
                       \/ includes(lq, <<"l","o","w","e","s","t">>)
                       \/ includes(lq, <<"s","m","a","l","l","e","s","t">>)
    IN  [handler |-> "Sort", n |-> 0,
         blocks |-> Concat([s \in 1..Len(d.sheets) |-> RankBlock_openai(d.sheets[s], q, 20, ~isAscending, o)])]


RECURSIVE QuotedTerms(_, _)
\* question.match(/"([^"]+)"/g) with the quotes removed, from position from
QuotedTerms(q, from) ==
    LET next(i) == Min({j \in (i + 1)..(Len(q) + 1) : j = Len(q) + 1 \/ q[j] = "\""})
        \* the term between the quotes at positions i and e, and the terms
        \* after it
        term(i, e) == <<SubSeq(q, i + 1, e - 1)>> \o QuotedTerms(q, e + 1)
        at(i) == term(i, next(i))
        leftmost(opens) == IF opens = {} THEN <<>> ELSE at(Min(opens))
    IN  leftmost({i \in from..Len(q) :
            q[i] = "\"" /\ \E e \in {next(i)} : e <= Len(q) /\ e > i + 1})

RECURSIVE AfterLiterals(_, _, _)
\* where the word starts when the literals, each followed by \s+, match
\* at position i; 0 when they do not
AfterLiterals(lq, lits, i) ==
    IF lits = <<>> THEN i
    ELSE IF OccursAt(lq, Head(lits), i) /\ SkipSpaces(lq, i + Len(Head(lits))) > i + Len(Head(lits))
         THEN AfterLiterals(lq, Tail(lits), SkipSpaces(lq, i + Len(Head(lits))))
         ELSE 0

SkipWord(s, i) == Min({j \in i..(Len(s) + 1) : j = Len(s) + 1 \/ ~IsWordChar(s[j])})

RECURSIVE WordsAfter(_, _, _)
\* the (\w+) of every match of /LIT\s+...\s+(\w+)/g in lq, from position from
WordsAfter(lq, lits, from) ==
    LET ok(i) == \E p \in {AfterLiterals(lq, lits, i)} : p # 0 /\ SkipWord(lq, p) > p
        \* the word lq[p..e-1] and the matches after it
        word(p, e) == <<SubSeq(lq, p, e - 1)>> \o WordsAfter(lq, lits, e)
        at(p) == word(p, SkipWord(lq, p))
        leftmost(starts) ==
            IF starts = {} THEN <<>> ELSE at(AfterLiterals(lq, lits, Min(starts)))
    IN  leftmost({i \in from..Len(lq) : ok(i)})

extractFilterTerms(q) ==
    LET lowerQuestion == toLowerCase(q)
        longer(terms) == FilterAt(terms, {t \in 1..Len(terms) : Len(terms[t]) > 2})
    IN  longer(Concat(<< QuotedTerms(q, 1),
                    WordsAfter(lowerQuestion, << <<"w","h","e","r","e">> >>, 1),
                    WordsAfter(lowerQuestion, << <<"o","n","l","y">> >>, 1),
                    WordsAfter(lowerQuestion, << <<"f","i","l","t","e","r">>, <<"b","y">> >>, 1),
                    WordsAfter(lowerQuestion, << <<"c","o","n","t","a","i","n","i","n","g">> >>, 1) >>))

\* String(value) of a cell
StringOf(c) == IF c.ty = "null" THEN <<"n","u","l","l">> ELSE CellString(c)

FilterBlock_openai(sheet, q) ==
    LET rows == sheet.rows
        headers == sheet.headers
        listed(filteredRows, sample) ==
            << [sheet |-> sheet.name, total |-> Len(rows), filtered |-> Len(filteredRows),
                lines |-> [i \in 1..Len(sample) |-> getRowIdentifier_openai(sample[i], headers)]] >>
        report(filteredRows) == listed(filteredRows, slice0(filteredRows, 5))
        filter(filterTerms) ==
            report(IF Len(filterTerms) > 0
                   THEN FilterAt(rows, {r \in 1..Len(rows) :
                           \E t \in 1..Len(filterTerms) : \E c \in 1..Len(rows[r]) :
                               includes(toLowerCase(StringOf(rows[r][c])), toLowerCase(filterTerms[t]))})
                   ELSE rows)
    IN  IF Len(rows) = 0 THEN <<>> ELSE filter(extractFilterTerms(q))

processFilterQuery_openai(q, d) ==
    [handler |-> "Filter", n |-> 0,
     blocks |-> Concat([s \in 1..Len(d.sheets) |-> FilterBlock_openai(d.sheets[s], q)])]

(***************************************************************************)
(* src/src/utils/openai.ts: the router                                     *)
(***************************************************************************)
preprocessQuery_openai(q, d, o) ==
    LET lowerQuestion == toLowerCase(q)
        has(w) == includes(lowerQuestion, w)
        top == topMatch(lowerQuestion)
        bottom == bottomMatch(lowerQuestion)
    IN  IF \/ has(<<"s","u","m">>) \/ has(<<"t","o","t","a","l">>)
           \/ has(<<"a","v","e","r","a","g","e">>) \/ has(<<"m","e","a","n">>)
        THEN processAggregationQuery(q, d)
        ELSE IF \/ has(<<"c","o","m","p","a","r","e">>) \/ has(<<"v","s">>)
                \/ has(<<"v","e","r","s","u","s">>) \/ has(<<"b","e","t","w","e","e","n">>)
        THEN processComparisonQuery(q, d)
        ELSE IF \/ has(<<"t","r","e","n","d">>) \/ has(<<"o","v","e","r"," ","t","i","m","e">>)
                \/ has(<<"g","r","o","w","t","h">>) \/ has(<<"c","h","a","n","g","e">>)
        THEN processTrendQuery(q, d)
        ELSE IF top.found THEN processTopNQuery_openai(q, d, top.n, o)
        ELSE IF bottom.found THEN processBottomNQuery_openai(q, d, bottom.n, o)
        ELSE IF \/ has(<<"f","i","l","t","e","r">>) \/ has(<<"w","h","e","r","e">>)
                \/ has(<<"o","n","l","y">>)
        THEN processFilterQuery_openai(q, d)
        ELSE IF \/ has(<<"s","o","r","t">>) \/ has(<<"o","r","d","e","r">>)
                \/ has(<<"r","a","n","k">>)
        THEN processSortQuery(q, d, o)
        ELSE NoResult


(***************************************************************************)
(* Inputs of the analysis operations                                       *)
(***************************************************************************)
S_Name == <<"N","a","m","e">>
S_Attack == <<"A","t","t","a","c","k">>
S_Sheet1 == <<"S","h","e","e","t","1">>
S_File == <<"f",".","c","s","v">>

\* a sheet with an identifier column Name (A, B, C, ... by row) and a
\* column Attack that holds the given cells
AttackSheet(cells) ==
    [name |-> S_Sheet1,
     headers |-> IF cells = <<>> THEN <<>> ELSE <<S_Name, S_Attack>>,
     rows |-> [i \in 1..Len(cells) |-> <<StrCell(<<UpperChars[i]>>), cells[i]>>]]

DataOf(sheets) == [fileName |-> S_File, sheets |-> sheets]

\* all sequences over S of length 0..n
SeqsUpTo(S, n) == UNION {[1..k -> S] : k \in 0..n}

NoResults == <<>>
\* result with the value v recorded for the operation called name
Record(name, v) == [o \in (DOMAIN result) \cup {name} |-> IF o = name THEN v ELSE result[o]]
Done(name) == name \in DOMAIN result

NoData == [null |-> TRUE]
\* the application not started: nothing of it moves in the specifications
\* of the analysis operations
ChatIdle ==
    /\ apiKey = TRUE /\ excelData = NoData /\ chatMessages = <<>>
    /\ storage = [data |-> NoData, history |-> <<>>]
    /\ mounted = "none" /\ instance = 0 /\ inputMessage = <<>> /\ isLoading = FALSE
    /\ apiError = "null" /\ openAIService = FALSE
    /\ pending = {} /\ calls = 0 /\ clock = 0

(***************************************************************************)
(* SpecRank: processTopNQuery and processBottomNQuery of part_003 applied  *)
(* to a question "top by Attack" and every sheet of up to MaxRows rows     *)
(***************************************************************************)
MaxRows == 4
MaxN == 2

RankCells == {NumCell(10), NumCell(50), NumCell(30), StrCell(<<"7","x">>), StrCell(<<"n","a">>)}
RankQuestion == <<"t","o","p"," ","b","y"," ","A","t","t","a","c","k">>

InitRank ==
    /\ question = RankQuestion
    /\ data \in {DataOf(<<AttackSheet(cells)>>) : cells \in SeqsUpTo(RankCells, MaxRows)}
    /\ rankN \in 0..MaxN
    /\ response = <<>>
    /\ result = NoResults
    /\ ChatIdle

TopN_p3 ==
    /\ ~Done("processTopNQuery_p3")
    /\ result' = Record("processTopNQuery_p3", processTopNQuery_p3(question, data, rankN))
    /\ UNCHANGED <<inputs, chatVars>>

BottomN_p3 ==
    /\ ~Done("processBottomNQuery_p3")
    /\ result' = Record("processBottomNQuery_p3", processBottomNQuery_p3(question, data, rankN))
    /\ UNCHANGED <<inputs, chatVars>>

NextRank == TopN_p3 \/ BottomN_p3

SpecRank == InitRank /\ [][NextRank]_vars


(***************************************************************************)
(* SpecRoute: both variants of preprocessQuery applied to questions made   *)
(* of up to MaxPhrases phrases, each phrase the cue of one intent          *)
(***************************************************************************)
MaxPhrases == 2

RoutePhrases ==
    { <<"t","o","p"," ","3">>,
      <<"b","o","t","t","o","m"," ","2">>,
      <<"a","t","t","a","c","k"," ","a","b","o","v","e"," ","2","0">>,
      <<"t","o","t","a","l">>,
      <<"p","i","e"," ","c","h","a","r","t">>,
      <<"h","i","g","h","e","s","t"," ","a","t","t","a","c","k">>,
      <<"s","o","r","t">>,
      <<"o","n","l","y">>,
      <<"c","o","m","p","a","r","e">>,
      <<"t","r","e","n","d">>,
      <<"b","y"," ","A","t","t","a","c","k">> }

RECURSIVE Join(_)
\* the phrases of a question, one space between two
Join(ps) == IF Len(ps) = 1 THEN ps[1]
            ELSE Join(SubSeq(ps, 1, Len(ps) - 1)) \o <<" ">> \o ps[Len(ps)]

RouteQuestions == {Join(ps) : ps \in SeqsUpTo(RoutePhrases, MaxPhrases) \ {<<>>}}

\* rows A(10), B(50), C(30), D(5); a sheet of text only; no sheet at all
RouteData ==
    { DataOf(<<AttackSheet(<<NumCell(10), NumCell(50), NumCell(30), NumCell(5)>>)>>),
      DataOf(<<AttackSheet(<<StrCell(<<"n","a">>), StrCell(<<"n","a">>)>>)>>),
      DataOf(<<>>) }

RECURSIVE MaxLen(_)
MaxLen(sheets) == IF sheets = <<>> THEN 0
                  ELSE LET m == MaxLen(Tail(sheets))
                       IN  IF Len(sheets[1].rows) > m THEN Len(sheets[1].rows) ELSE m

\* the orders Array.prototype.sort may leave the rows of d in: the
\* comparator returns NaN for two rows of a column the handlers may sort by
\* when a key is NaN or both are the same infinity, and then every
\* permutation of the indices is possible; otherwise the sort decides
SortOrders(d) ==
    LET n == MaxLen(d.sheets)
        key(sh, c, r) == parseFloat(Get(sh.headers, sh.rows[r], c))
        inconsistent(sh) ==
            LET cols == numericColumns_openai(sh.headers, sh.rows)
            IN  \E k \in 1..Len(cols) : \E i, j \in 1..Len(sh.rows) :
                    i # j /\ SubIsNaN(key(sh, cols[k], i), key(sh, cols[k], j))
    IN  IF \E s \in 1..Len(d.sheets) : inconsistent(d.sheets[s])
        THEN {o \in [1..n -> 1..n] : \A i, j \in 1..n : i # j => o[i] # o[j]}
        ELSE {[i \in 1..n |-> i]}

InitRoute ==
    /\ question \in RouteQuestions
    /\ data \in RouteData
    /\ rankN = 0
    /\ response = <<>>
    /\ result = NoResults
    /\ ChatIdle

Preprocess_p3 ==
    /\ ~Done("preprocessQuery_p3")
    /\ result' = Record("preprocessQuery_p3", preprocessQuery_p3(question, data))
    /\ UNCHANGED <<inputs, chatVars>>

Preprocess_openai ==
    /\ ~Done("preprocessQuery_openai")
    /\ \E o \in SortOrders(data) :
          result' = Record("preprocessQuery_openai", preprocessQuery_openai(question, data, o))
    /\ UNCHANGED <<inputs, chatVars>>

NextRoute == Preprocess_p3 \/ Preprocess_openai

SpecRoute == InitRoute /\ [][NextRoute]_vars


(***************************************************************************)
(* The intents of a question, as the routers test them                     *)
(***************************************************************************)
Intents(q, d) ==
    LET lq == toLowerCase(q)
        has(w) == includes(lq, w)
    IN  [numeric |-> extractNumericFilterCondition(q, allHeaders(d)).found,
         top |-> topMatch(lq).found,
         bottom |-> bottomMatch(lq).found,
         extremum |-> (includesAny(lq, maxKeywords) \/ includesAny(lq, minKeywords))
                        /\ ~topMatch(lq).found /\ ~bottomMatch(lq).found,
         filter |-> has(<<"f","i","l","t","e","r">>) \/ has(<<"w","h","e","r","e">>) \/ has(<<"o","n","l","y">>)
                      \/ has(<<"s","h","o","w"," ","a","l","l">>),
         aggregation |-> has(<<"s","u","m">>) \/ has(<<"t","o","t","a","l">>) \/ has(<<"a","v","e","r","a","g","e">>)
                           \/ has(<<"m","e","a","n">>),
         comparison |-> has(<<"c","o","m","p","a","r","e">>) \/ has(<<"v","s">>) \/ has(<<"v","e","r","s","u","s">>)
                          \/ has(<<"b","e","t","w","e","e","n">>),
         trend |-> has(<<"t","r","e","n","d">>) \/ has(<<"o","v","e","r"," ","t","i","m","e">>) \/ has(<<"g","r","o","w","t","h">>)
                     \/ has(<<"c","h","a","n","g","e">>),
         sort |-> has(<<"s","o","r","t">>) \/ has(<<"o","r","d","e","r">>) \/ has(<<"r","a","n","k">>),
         chartOnly |-> isSimpleChartRequest(lq) /\ ~isComplexQuery(lq)]

Routers == {"preprocessQuery_p3", "preprocessQuery_openai"}

(***************************************************************************)
(* C1 as stated: the router answers with the handler of the first intent   *)
(* that matches in the order numeric filter, top-N, bottom-N, single       *)
(* extremum, filter keywords, aggregation, comparison, trend, sort, and    *)
(* with no pre-processing when none matches (a handler that ran may have   *)
(* found nothing to report).                                               *)
(***************************************************************************)
C1_StatedOrder ==
    \A r \in Routers \cap DOMAIN result :
        LET i == Intents(question, data)
            first == IF i.numeric THEN "Filter"
                     ELSE IF i.top THEN "TopN"
                     ELSE IF i.bottom THEN "BottomN"
                     ELSE IF i.extremum THEN "MaxMin"
                     ELSE IF i.filter THEN "Filter"
                     ELSE IF i.aggregation THEN "Aggregation"
                     ELSE IF i.comparison THEN "Comparison"
                     ELSE IF i.trend THEN "Trend"
                     ELSE IF i.sort THEN "Sort"
                     ELSE "null"
        IN  result[r].handler \in {first, "", "null"}

(***************************************************************************)
(* C1 as the code has it.  part_003: no pre-processing for a bare chart    *)
(* request; otherwise the single-extremum handler when it reports          *)
(* something, else top-N, else bottom-N, else the numeric filter, else no  *)
(* pre-processing.  openai.ts: the first keyword group that matches in the *)
(* order aggregation, comparison, trend, top-N, bottom-N, filter, sort.    *)
(* So "top N" with a numeric condition goes to top-N (part_003) and        *)
(* "top N" with an aggregation keyword goes to aggregation (openai.ts).    *)
(***************************************************************************)
C1_RouterOrder ==
    LET i == Intents(question, data)
    IN  /\ Done("preprocessQuery_p3") =>
              LET r == result["preprocessQuery_p3"]
              IN  IF i.chartOnly THEN r = NoResult
                  ELSE IF ~IsFalsy(processMaxMinQuery(question, data)) THEN r.handler = "MaxMin"
                  ELSE IF i.top THEN r.handler \in {"TopN", ""}
                  ELSE IF i.bottom THEN r.handler \in {"BottomN", ""}
                  ELSE IF i.numeric THEN r.handler \in {"Filter", "null"}
                  ELSE r = NoResult
        /\ Done("preprocessQuery_openai") =>
              result["preprocessQuery_openai"].handler =
                  IF i.aggregation THEN "Aggregation"
                  ELSE IF i.comparison THEN "Comparison"
                  ELSE IF i.trend THEN "Trend"
                  ELSE IF i.top THEN "TopN"
                  ELSE IF i.bottom THEN "BottomN"
                  ELSE IF i.filter THEN "Filter"
                  ELSE IF i.sort THEN "Sort"
                  ELSE "null"

\* a question with a top-N pattern and a numeric condition answered by the
\* top-N handler of part_003
C1_Witness ==
    /\ Done("preprocessQuery_p3")
    /\ Intents(question, data).top /\ Intents(question, data).numeric
    /\ result["preprocessQuery_p3"].handler = "TopN"

(***************************************************************************)
(* C5: for a sheet with an identifier column and a numeric column Attack,  *)
(* preprocessQuery of part_003 on "top 3 by Attack" reports the (up to) 3  *)
(* rows with the largest Attack in descending order and a bar chart of     *)
(* those rows with xKey Name and yKey Attack.                              *)
(***************************************************************************)
C5_TopNByColumn ==
    (/\ Done("preprocessQuery_p3")
     /\ question = Join(<<<<"t","o","p"," ","3">>, <<"b","y"," ","A","t","t","a","c","k">>>>)
     /\ Len(data.sheets) = 1
     /\ numericColumns_p3(data.sheets[1].headers, data.sheets[1].rows) = <<S_Attack>>)
    => LET r == result["preprocessQuery_p3"]
           rows == data.sheets[1].rows
           key(row) == parseFloat(row[2])
           top == r.blocks[1].rows
       IN  /\ r.handler = "TopN"
           /\ Len(r.blocks) = 1
           /\ Len(top) = (IF Len(rows) < 3 THEN Len(rows) ELSE 3)
           /\ \A k \in 1..Len(top) : \E j \in 1..Len(rows) : top[k].cells = rows[j]
           /\ \A k \in 1..(Len(top) - 1) : NumGreater(key(top[k].cells), key(top[k + 1].cells))
           /\ \A j \in 1..Len(rows) :
                  (\A k \in 1..Len(top) : top[k].cells # rows[j])
                      => \A k \in 1..Len(top) : NumGreater(key(top[k].cells), key(rows[j]))
           /\ r.blocks[1].chart.type = "bar"
           /\ r.blocks[1].chart.xKey = S_Name
           /\ r.blocks[1].chart.yKey = S_Attack
           /\ r.blocks[1].chart.data = top


(***************************************************************************)
(* C7: for every sheet whose resolved column is fully numeric and          *)
(* tie-free and every N with 2N <= rowCount, the rows processTopNQuery     *)
(* selects and the rows processBottomNQuery selects for the same N are     *)
(* disjoint and together are exactly 2N rows.                              *)
(***************************************************************************)
C7_TopBottomDisjoint ==
    (Done("processTopNQuery_p3") /\ Done("processBottomNQuery_p3")) =>
        \A s \in 1..Len(data.sheets) :
            LET sheet == data.sheets[s]
                rowsOf(r) == UNION {{b.rows[k].cells : k \in 1..Len(b.rows)} :
                                    b \in {r.blocks[k] : k \in {k \in 1..Len(r.blocks) : r.blocks[k].sheet = sheet.name}}}
                top == rowsOf(result["processTopNQuery_p3"])
                bottom == rowsOf(result["processBottomNQuery_p3"])
                column == findRelevantColumn_p3(question, numericColumns_p3(sheet.headers, sheet.rows),
                                                sheet.headers, sheet.rows)
                key(r) == parseFloat(Get(sheet.headers, sheet.rows[r], column))
                fullyNumeric == \A r \in 1..Len(sheet.rows) : key(r).k = "fin"
                tieFree == \A r1, r2 \in 1..Len(sheet.rows) : r1 # r2 => key(r1) # key(r2)
            IN  (fullyNumeric /\ tieFree /\ 2 * rankN <= Len(sheet.rows))
                    => /\ top \cap bottom = {}
                       /\ Cardinality(top \cup bottom) = 2 * rankN

\* two rows on top and two other rows at the bottom of a sheet of four
C7_Witness ==
    /\ Done("processTopNQuery_p3") /\ Done("processBottomNQuery_p3")
    /\ rankN = 2
    /\ Len(data.sheets[1].rows) = 4
    /\ \A r1, r2 \in 1..4 : r1 # r2 =>
           /\ parseFloat(data.sheets[1].rows[r1][2]).k = "fin"
           /\ parseFloat(data.sheets[1].rows[r1][2]) # parseFloat(data.sheets[1].rows[r2][2])
    /\ Len(result["processTopNQuery_p3"].blocks[1].rows) = 2
    /\ Len(result["processBottomNQuery_p3"].blocks[1].rows) = 2


(***************************************************************************)
(* SpecFilter: extractNumericFilterCondition and processFilterQuery of     *)
(* part_003 applied to the questions "Attack <comparison word> <number>"   *)
(* and every sheet of up to MaxRows rows                                   *)
(***************************************************************************)
\* comparison words, each with the comparison it names
FilterWords ==
    { [word |-> <<"a","b","o","v","e">>, symbol |-> <<">">>],
      [word |-> <<"l","e","s","s"," ","t","h","a","n">>, symbol |-> <<"<">>],
      [word |-> <<"a","t"," ","l","e","a","s","t">>, symbol |-> <<">","=">>],
      [word |-> <<"n","o","t"," ","l","e","s","s"," ","t","h","a","n">>, symbol |-> <<">","=">>],
      [word |-> <<"a","t"," ","m","o","s","t">>, symbol |-> <<"<","=">>],
      [word |-> <<"i","s">>, symbol |-> <<"=","=">>] }
FilterNumbers == {20, 30}
FilterCells == {NumCell(10), NumCell(50), NumCell(30), StrCell(<<"n","a">>)}

FilterQuestion(w, n) == Join(<<S_Attack, w.word, NatToString(n)>>)

InitFilter ==
    /\ question \in {FilterQuestion(w, n) : w \in FilterWords, n \in FilterNumbers}
    /\ data \in {DataOf(<<AttackSheet(cells)>>) : cells \in SeqsUpTo(FilterCells, MaxRows)}
    /\ rankN = 0
    /\ response = <<>>
    /\ result = NoResults
    /\ ChatIdle

ExtractCondition ==
    /\ ~Done("extractNumericFilterCondition")
    /\ result' = Record("extractNumericFilterCondition",
                        extractNumericFilterCondition(question, allHeaders(data)))
    /\ UNCHANGED <<inputs, chatVars>>

Filter_p3 ==
    /\ ~Done("processFilterQuery_p3")
    /\ result' = Record("processFilterQuery_p3",
                        processFilterQuery_p3(question, data, allHeaders(data)))
    /\ UNCHANGED <<inputs, chatVars>>

NextFilter == ExtractCondition \/ Filter_p3

SpecFilter == InitFilter /\ [][NextFilter]_vars

(***************************************************************************)
(* C6: for the question "Attack <comparison word> <number>" the extractor  *)
(* returns (Attack, the operator the word names, the number), and          *)
(* processFilterQuery reports exactly the rows whose parsed Attack         *)
(* satisfies that comparison, in their order, and nothing when there is    *)
(* no such row.                                                            *)
(***************************************************************************)
C6_FilterExact ==
    \A w \in FilterWords, n \in FilterNumbers :
        question = FilterQuestion(w, n) =>
            LET holds(v) == CASE w.symbol = <<">">> -> v > n
                              [] w.symbol = <<"<">> -> v < n
                              [] w.symbol = <<">","=">> -> v >= n
                              [] w.symbol = <<"<","=">> -> v <= n
                              [] OTHER -> v = n
                rows == IF data.sheets[1].headers = <<>> THEN <<>> ELSE data.sheets[1].rows
                keep == {r \in 1..Len(rows) :
                            /\ parseFloat(rows[r][2]).k = "fin"
                            /\ holds(parseFloat(rows[r][2]).v)}
                expected == Objs(data.sheets[1].headers, FilterAt(rows, keep))
            IN  /\ Done("extractNumericFilterCondition") /\ rows # <<>> =>
                      result["extractNumericFilterCondition"] =
                          [found |-> TRUE, column |-> S_Attack, operator |-> w.symbol, value |-> n]
                /\ Done("processFilterQuery_p3") =>
                      LET r == result["processFilterQuery_p3"]
                      IN  IF keep = {} THEN r = NoResult
                          ELSE /\ r.handler = "Filter"
                               /\ Len(r.blocks) = 1
                               /\ r.blocks[1].rows = expected
                               /\ r.blocks[1].chart.data = expected

\* "Attack above 20" on rows A(10), B(50), C(30): the condition
\* (Attack, ">", 20) and the rows B and C
C6_Witness ==
    /\ question = <<"A","t","t","a","c","k"," ","a","b","o","v","e"," ","2","0">>
    /\ data.sheets[1].rows = AttackSheet(<<NumCell(10), NumCell(50), NumCell(30)>>).rows
    /\ Done("extractNumericFilterCondition") /\ Done("processFilterQuery_p3")
    /\ result["extractNumericFilterCondition"].operator = <<">">>
    /\ Len(result["processFilterQuery_p3"].blocks[1].rows) = 2
    /\ result["processFilterQuery_p3"].blocks[1].rows[1].cells[1].str = <<"B">>
    /\ result["processFilterQuery_p3"].blocks[1].rows[2].cells[1].str = <<"C">>


(***************************************************************************)
(* SpecAgg: processAggregationQuery of openai.ts called, and called again, *)
(* on every sheet of up to MaxRows rows                                    *)
(***************************************************************************)
AggCells == {NumCell(10), NumCell(5), StrCell(<<"7","x">>), StrCell(<<"n","a">>), NullCell}

InitAgg ==
    /\ question = <<"t","o","t","a","l">>
    /\ data \in {DataOf(<<AttackSheet(cells)>>) : cells \in SeqsUpTo(AggCells, MaxRows)}
    /\ rankN = 0
    /\ response = <<>>
    /\ result = NoResults
    /\ ChatIdle

Aggregate ==
    /\ ~Done("processAggregationQuery again")
    /\ result' = Record(IF Done("processAggregationQuery") THEN "processAggregationQuery again"
                        ELSE "processAggregationQuery",
                        processAggregationQuery(question, data))
    /\ UNCHANGED <<inputs, chatVars>>

NextAgg == Aggregate

SpecAgg == InitAgg /\ [][NextAgg]_vars

(***************************************************************************)
(* C8: for every column with at least one value parseFloat accepts         *)
(* (numeric-prefixed strings included), processAggregationQuery reports    *)
(* the column with the sum and the count of its parseable values, and a    *)
(* second call returns the same result.                                    *)
(***************************************************************************)
C8_AggregateParseable ==
    Done("processAggregationQuery") =>
        LET r == result["processAggregationQuery"]
        IN  /\ \A s \in 1..Len(data.sheets) : \A c \in 1..Len(data.sheets[s].headers) :
                  LET sheet == data.sheets[s]
                      parseable == {i \in 1..Len(sheet.rows) : parseFloat(sheet.rows[i][c]).k = "fin"}
                      total == SumSeq([i \in 1..Len(sheet.rows) |->
                                  IF i \in parseable THEN parseFloat(sheet.rows[i][c]).v ELSE 0])
                  IN  parseable # {} =>
                          \E b \in 1..Len(r.blocks) : \E k \in 1..Len(r.blocks[b].stats) :
                              /\ r.blocks[b].sheet = sheet.name
                              /\ r.blocks[b].stats[k].column = sheet.headers[c]
                              /\ r.blocks[b].stats[k].sum = total
                              /\ r.blocks[b].stats[k].count = Cardinality(parseable)
            /\ Done("processAggregationQuery again") => result["processAggregationQuery again"] = r


(***************************************************************************)
(* JSON: a value is [jt |-> "num", n], [jt |-> "str", s], [jt |-> "bool",  *)
(* b], [jt |-> "null"], [jt |-> "arr", items] or [jt |-> "obj", keys,      *)
(* vals]; Undefined is what reading a missing property gives.  The texts   *)
(* hold integers only, and no \u escapes.                                  *)
(***************************************************************************)
Undefined == [jt |-> "undefined"]
JNum(n) == [jt |-> "num", n |-> n]
JStr(s) == [jt |-> "str", s |-> s]
JArr(items) == [jt |-> "arr", items |-> items]
JObj(keys, vals) == [jt |-> "obj", keys |-> keys, vals |-> vals]
JFail == [ok |-> FALSE, v |-> Undefined, next |-> 0]

\* the characters JSON.stringify writes for the string s, quotes included
JsonQuote(s) ==
    <<"\"">> \o Concat([i \in 1..Len(s) |->
                 CASE s[i] = "\"" -> <<"\\", "\"">>
                   [] s[i] = "\\" -> <<"\\", "\\">>
                   [] s[i] = "\n" -> <<"\\", "n">>
                   [] OTHER -> <<s[i]>>]) \o <<"\"">>

RECURSIVE JsonStringify(_)
\* JSON.stringify(v)
JsonStringify(v) ==
    LET commas(parts) == Concat([i \in 1..Len(parts) |->
                             (IF i > 1 THEN <<",">> ELSE <<>>) \o parts[i]])
    IN  CASE v.jt = "num" -> (IF v.n < 0 THEN <<"-">> \o NatToString(-v.n) ELSE NatToString(v.n))
          [] v.jt = "str" -> JsonQuote(v.s)
          [] v.jt = "bool" -> (IF v.b THEN <<"t","r","u","e">> ELSE <<"f","a","l","s","e">>)
          [] v.jt = "arr" ->
                <<"[">> \o commas([i \in 1..Len(v.items) |-> JsonStringify(v.items[i])]) \o <<"]">>
          [] v.jt = "obj" ->
                <<"{">> \o commas([i \in 1..Len(v.keys) |->
                              JsonQuote(v.keys[i]) \o <<":">> \o JsonStringify(v.vals[i])]) \o <<"}">>
          [] OTHER -> <<"n","u","l","l">>

RECURSIVE JsonChars(_, _)
\* the characters of a string literal from position i on (after its opening
\* quote) up to its closing quote
JsonChars(s, i) ==
    IF i > Len(s) \/ s[i] \in {"\n", "\t", "\r"} THEN [ok |-> FALSE, s |-> <<>>, next |-> 0]
    ELSE IF s[i] = "\"" THEN [ok |-> TRUE, s |-> <<>>, next |-> i + 1]
    ELSE IF s[i] = "\\" THEN
        (IF i + 1 > Len(s) \/ s[i + 1] \notin {"\"", "\\", "/", "n", "t", "r"}
         THEN [ok |-> FALSE, s |-> <<>>, next |-> 0]
         ELSE LET rest == JsonChars(s, i + 2)
                  c == CASE s[i + 1] = "n" -> "\n" [] s[i + 1] = "t" -> "\t"
                         [] s[i + 1] = "r" -> "\r" [] OTHER -> s[i + 1]
              IN  [ok |-> rest.ok, s |-> <<c>> \o rest.s, next |-> rest.next])
    ELSE LET rest == JsonChars(s, i + 1)
         IN  [ok |-> rest.ok, s |-> <<s[i]>> \o rest.s, next |-> rest.next]

RECURSIVE JsonValue(_, _)
RECURSIVE JsonElements(_, _)
RECURSIVE JsonMembers(_, _)
\* the value that starts at position i of s (white space skipped): ok, the
\* value and the position after it
JsonValue(s, at) ==
    LET i == SkipSpaces(s, at)
        word(w, v) == IF OccursAt(s, w, i) THEN [ok |-> TRUE, v |-> v, next |-> i + Len(w)] ELSE JFail
    IN  IF i > Len(s) THEN JFail
        ELSE IF s[i] = "\"" THEN
            LET r == JsonChars(s, i + 1)
            IN  IF r.ok THEN [ok |-> TRUE, v |-> JStr(r.s), next |-> r.next] ELSE JFail
        ELSE IF IsDigit(s[i]) \/ s[i] = "-" THEN
            LET d == IF s[i] = "-" THEN i + 1 ELSE i
                e == SkipDigits(s, d)
                n == DigitsValue(SubSeq(s, d, e - 1))
            IN  IF e = d \/ (s[d] = "0" /\ e > d + 1) THEN JFail
                ELSE [ok |-> TRUE, v |-> JNum(IF d > i THEN -n ELSE n), next |-> e]
        ELSE IF s[i] = "[" THEN
            LET j == SkipSpaces(s, i + 1)
                r == JsonElements(s, j)
            IN  IF j <= Len(s) /\ s[j] = "]" THEN [ok |-> TRUE, v |-> JArr(<<>>), next |-> j + 1]
                ELSE IF r.ok THEN [ok |-> TRUE, v |-> JArr(r.items), next |-> r.next] ELSE JFail
        ELSE IF s[i] = "{" THEN
            LET j == SkipSpaces(s, i + 1)
                r == JsonMembers(s, j)
            IN  IF j <= Len(s) /\ s[j] = "}" THEN [ok |-> TRUE, v |-> JObj(<<>>, <<>>), next |-> j + 1]
                ELSE IF r.ok THEN [ok |-> TRUE, v |-> JObj(r.keys, r.vals), next |-> r.next] ELSE JFail
        ELSE IF s[i] = "t" THEN word(<<"t","r","u","e">>, [jt |-> "bool", b |-> TRUE])
        ELSE IF s[i] = "f" THEN word(<<"f","a","l","s","e">>, [jt |-> "bool", b |-> FALSE])
        ELSE IF s[i] = "n" THEN word(<<"n","u","l","l">>, [jt |-> "null"])
        ELSE JFail

\* value (, value)* ] from position i on
JsonElements(s, i) ==
    LET v == JsonValue(s, i)
        j == SkipSpaces(s, v.next)
        rest == JsonElements(s, j + 1)
        failed == [ok |-> FALSE, items |-> <<>>, next |-> 0]
    IN  IF ~v.ok \/ j > Len(s) THEN failed
        ELSE IF s[j] = "]" THEN [ok |-> TRUE, items |-> <<v.v>>, next |-> j + 1]
        ELSE IF s[j] = "," /\ rest.ok THEN [ok |-> TRUE, items |-> <<v.v>> \o rest.items, next |-> rest.next]
        ELSE failed

\* "key" : value (, "key" : value)* } from position at on
JsonMembers(s, at) ==
    LET i == SkipSpaces(s, at)
        k == IF i <= Len(s) /\ s[i] = "\"" THEN JsonChars(s, i + 1) ELSE [ok |-> FALSE, s |-> <<>>, next |-> 0]
        c == SkipSpaces(s, k.next)
        v == JsonValue(s, c + 1)
        j == SkipSpaces(s, v.next)
        rest == JsonMembers(s, j + 1)
        failed == [ok |-> FALSE, keys |-> <<>>, vals |-> <<>>, next |-> 0]
    IN  IF ~k.ok \/ c > Len(s) \/ s[c] # ":" THEN failed
        ELSE IF ~v.ok \/ j > Len(s) THEN failed
        ELSE IF s[j] = "}" THEN [ok |-> TRUE, keys |-> <<k.s>>, vals |-> <<v.v>>, next |-> j + 1]
        ELSE IF s[j] = "," /\ rest.ok
             THEN [ok |-> TRUE, keys |-> <<k.s>> \o rest.keys, vals |-> <<v.v>> \o rest.vals, next |-> rest.next]
        ELSE failed

\* JSON.parse(s): ok is FALSE where it throws a SyntaxError
JsonParse(s) ==
    LET r == JsonValue(s, 1)
    IN  IF r.ok /\ SkipSpaces(s, r.next) = Len(s) + 1 THEN r ELSE JFail

\* v[name] of a parsed value that is not null: the last member of that
\* name, undefined when there is none or v is no object
Property(v, name) ==
    LET at == IF v.jt = "obj" THEN {i \in 1..Len(v.keys) : v.keys[i] = name} ELSE {}
    IN  IF at = {} THEN Undefined ELSE v.vals[CHOOSE i \in at : \A j \in at : j <= i]


(***************************************************************************)
(* parseResponse, both variants.  A result is [text, chart]; chart is      *)
(* Undefined when the result has none.                                     *)
(***************************************************************************)
chartSpecIdentifier == <<"C","H","A","R","T","_","S","P","E","C",":">>

\* the chart built from the parsed chartSpec
ChartOf(chartSpec) ==
    [type |-> Property(chartSpec, <<"t","y","p","e">>),
     data |-> Property(chartSpec, <<"d","a","t","a">>),
     config |-> [xKey |-> Property(chartSpec, <<"x","K","e","y">>),
                 yKey |-> Property(chartSpec, <<"y","K","e","y">>),
                 dataKey |-> Property(chartSpec, <<"d","a","t","a","K","e","y">>),
                 nameKey |-> Property(chartSpec, <<"n","a","m","e","K","e","y">>),
                 title |-> Property(chartSpec, <<"t","i","t","l","e">>)]]

\* part_003: split at indexOf, JSON.parse of everything after; reading a
\* property of null throws inside the try
parseResponse_p3(r) ==
    LET chartSpecIndex == indexOf(r, chartSpecIdentifier)
        textResponse == trim(SubSeq(r, 1, chartSpecIndex - 1))
        chartSpecString == trim(SubSeq(r, chartSpecIndex + Len(chartSpecIdentifier), Len(r)))
        parsed == JsonParse(chartSpecString)
    IN  IF chartSpecIndex # 0 /\ parsed.ok /\ parsed.v.jt # "null"
        THEN [text |-> textResponse, chart |-> ChartOf(parsed.v)]
        ELSE [text |-> r, chart |-> Undefined]

\* openai.ts: response.match(/CHART_SPEC:\s*({[\s\S]*?})/), the leftmost
\* sentinel that white space and a brace follow, the group ending at the
\* first closing brace; the text is cut at the first sentinel
parseResponse_openai(r) ==
    LET open(i) == SkipSpaces(r, i + Len(chartSpecIdentifier))
        closes(i) == {e \in (open(i) + 1)..Len(r) : r[e] = "}"}
        starts == {i \in 1..Len(r) :
                     /\ OccursAt(r, chartSpecIdentifier, i)
                     /\ open(i) <= Len(r) /\ r[open(i)] = "{"
                     /\ closes(i) # {}}
        i == Min(starts)
        parsed == JsonParse(SubSeq(r, open(i), Min(closes(i))))
        textResponse == trim(SubSeq(r, 1, indexOf(r, chartSpecIdentifier) - 1))
    IN  IF starts # {} /\ parsed.ok
        THEN [text |-> textResponse,
              chart |-> [type |-> ChartOf(parsed.v).type, data |-> ChartOf(parsed.v).data,
                         config |-> [xKey |-> ChartOf(parsed.v).config.xKey,
                                     yKey |-> ChartOf(parsed.v).config.yKey,
                                     dataKey |-> ChartOf(parsed.v).config.dataKey,
                                     nameKey |-> ChartOf(parsed.v).config.nameKey,
                                     title |-> ChartOf(parsed.v).config.title,
                                     xLabel |-> Property(parsed.v, <<"x","L","a","b","e","l">>),
                                     yLabel |-> Property(parsed.v, <<"y","L","a","b","e","l">>)]]]
        ELSE [text |-> r, chart |-> Undefined]

(***************************************************************************)
(* SpecParse: both variants applied to replies made of an answer text, a   *)
(* separator that holds the sentinel, and what follows it                  *)
(***************************************************************************)
AnswerTexts == { <<"H","i">>, <<" ","H","i"," ","\n">>, <<>> }

\* charts with one or more flat records
ValidCharts ==
    { JObj(<<<<"t","y","p","e">>, <<"t","i","t","l","e">>, <<"d","a","t","a">>, <<"x","K","e","y">>, <<"y","K","e","y">>>>,
             <<JStr(<<"b","a","r">>), JStr(<<"T","o","p">>), JArr(<<JObj(<<<<"n">>, <<"v">>>>,
             <<JStr(<<"A">>), JNum(1)>>)>>), JStr(<<"n">>), JStr(<<"v">>)>>),
      JObj(<<<<"t","y","p","e">>, <<"t","i","t","l","e">>, <<"d","a","t","a">>, <<"n","a","m","e","K","e","y">>, <<"d","a","t","a","K","e","y">>>>,
             <<JStr(<<"p","i","e">>), JStr(<<"S","h","a","r","e">>), JArr(<<JObj(<<<<"n">>, <<"v">>>>,
             <<JStr(<<"A">>), JNum(1)>>), JObj(<<<<"n">>, <<"v">>>>,
             <<JStr(<<"B">>), JNum(2)>>)>>), JStr(<<"n">>), JStr(<<"v">>)>>),
      JObj(<<<<"t","y","p","e">>, <<"t","i","t","l","e">>, <<"d","a","t","a">>, <<"x","K","e","y">>, <<"y","K","e","y">>>>,
             <<JStr(<<"l","i","n","e">>), JStr(<<"a"," ","\"","b","\""," ","{","c","}">>), JArr(<<JObj(<<<<"n">>, <<"v">>>>,
             <<JStr(<<"A","\\","B">>), JNum(-3)>>)>>), JStr(<<"n">>), JStr(<<"v">>)>>) }

\* t + "\nCHART_SPEC: " + JSON(X)
Compose(text, chart) == text \o <<"\n">> \o chartSpecIdentifier \o <<" ">> \o JsonStringify(chart)

\* what is no chart object: invalid JSON, JSON and then text, null, values
\* that are no object
MalformedSuffixes ==
    { <<"{","\"","t","y","p","e","\"",":">>,
      <<"{","\"","t","y","p","e","\"",":","\"","b","a","r","\"","}"," ","o","k">>,
      <<"n","u","l","l">>,
      <<"4","2">>,
      <<"\"","b","a","r","\"">>,
      <<"[","1","]">>,
      <<"t","r","u","e">>,
      <<>> }

\* other things that follow the sentinel: a chart with no record, a chart
\* after white space only, a second sentinel before the chart
OtherSuffixes ==
    { JsonStringify(JObj(<<<<"t","y","p","e">>, <<"t","i","t","l","e">>, <<"d","a","t","a">>, <<"x","K","e","y">>, <<"y","K","e","y">>>>,
             <<JStr(<<"b","a","r">>), JStr(<<"N","o","n","e">>), JArr(<<>>), JStr(<<"n">>), JStr(<<"v">>)>>)),
      <<"\n">> \o JsonStringify(JObj(<<<<"t","y","p","e">>, <<"d","a","t","a">>>>,
             <<JStr(<<"b","a","r">>), JArr(<<JObj(<<<<"v">>>>,
             <<JNum(1)>>)>>)>>)) \o <<"\n">>,
      <<"s","e","e"," ">> \o chartSpecIdentifier \o JsonStringify(JObj(<<<<"t","y","p","e">>>>,
             <<JStr(<<"b","a","r">>)>>)) }

Responses ==
    {Compose(text, chart) : text \in AnswerTexts, chart \in ValidCharts}
    \cup {text \o sep \o chartSpecIdentifier \o sep \o suffix :
            text \in AnswerTexts, sep \in {<<>>, <<" ">>},
            suffix \in MalformedSuffixes \cup OtherSuffixes}
    \cup AnswerTexts

InitParse ==
    /\ question = <<>>
    /\ data = DataOf(<<>>)
    /\ rankN = 0
    /\ response \in Responses
    /\ result = NoResults
    /\ ChatIdle

ParseResponse_p3 ==
    /\ ~Done("parseResponse_p3")
    /\ result' = Record("parseResponse_p3", parseResponse_p3(response))
    /\ UNCHANGED <<inputs, chatVars>>

ParseResponse_openai ==
    /\ ~Done("parseResponse_openai")
    /\ result' = Record("parseResponse_openai", parseResponse_openai(response))
    /\ UNCHANGED <<inputs, chatVars>>

NextParse == ParseResponse_p3 \/ ParseResponse_openai

SpecParse == InitParse /\ [][NextParse]_vars


Parsers == {"parseResponse_p3", "parseResponse_openai"}

\* the chart c holds the canonical fields of the chart object x, an absent
\* field staying absent
SameChart(c, x) ==
    /\ c # Undefined
    /\ c.type = Property(x, <<"t","y","p","e">>)
    /\ c.data = Property(x, <<"d","a","t","a">>)
    /\ c.config.title = Property(x, <<"t","i","t","l","e">>)
    /\ c.config.xKey = Property(x, <<"x","K","e","y">>)
    /\ c.config.yKey = Property(x, <<"y","K","e","y">>)
    /\ c.config.nameKey = Property(x, <<"n","a","m","e","K","e","y">>)
    /\ c.config.dataKey = Property(x, <<"d","a","t","a","K","e","y">>)

\* what follows the first sentinel of the reply, parsed
AfterSentinel ==
    JsonParse(trim(SubSeq(response, indexOf(response, chartSpecIdentifier) + Len(chartSpecIdentifier),
                          Len(response))))

(***************************************************************************)
(* C2: when an object JSON can parse follows the first CHART_SPEC: of the  *)
(* reply, parseResponse returns the trimmed text before that first         *)
(* sentinel and the chart built from everything after it.                  *)
(***************************************************************************)
C2_SplitAtFirstSentinel ==
    \A p \in Parsers \cap DOMAIN result :
        (/\ indexOf(response, chartSpecIdentifier) # 0
         /\ AfterSentinel.ok /\ AfterSentinel.v.jt = "obj")
        => /\ result[p].text = trim(SubSeq(response, 1, indexOf(response, chartSpecIdentifier) - 1))
           /\ SameChart(result[p].chart, AfterSentinel.v)

(***************************************************************************)
(* C3: when what follows the first CHART_SPEC: is no chart object (invalid *)
(* JSON, JSON and then text, null, a value that is no object),             *)
(* parseResponse returns the whole reply as the text and no chart.         *)
(***************************************************************************)
C3_MalformedKeepsRaw ==
    \A p \in Parsers \cap DOMAIN result :
        (/\ indexOf(response, chartSpecIdentifier) # 0
         /\ (~AfterSentinel.ok \/ AfterSentinel.v.jt # "obj"))
        => result[p] = [text |-> response, chart |-> Undefined]

(***************************************************************************)
(* C4: parsing t + "\nCHART_SPEC: " + JSON(X), for an answer text t and a  *)
(* chart X with one or more flat records, returns t trimmed and a chart    *)
(* with the type, title, data, xKey, yKey, nameKey and dataKey of X.       *)
(***************************************************************************)
C4_RoundTrip ==
    \A p \in Parsers \cap DOMAIN result :
        \A text \in AnswerTexts, chart \in ValidCharts :
            response = Compose(text, chart)
                => /\ result[p].text = trim(text)
                   /\ SameChart(result[p].chart, chart)


(***************************************************************************)
(* App and ChatInterface.  ChatInterface is rendered while excelData is    *)
(* set; its state is lost when it is unmounted.  A call of analyzeData is  *)
(* pending from the await in handleSendMessage until the promise settles.  *)
(***************************************************************************)
MaxSends == 2
MaxMounts == 2
MaxClock == 1

ChatData == DataOf(<<AttackSheet(<<NumCell(10)>>)>>)
\* the files a user uploads
Uploads == {ChatData, DataOf(<<AttackSheet(<<NumCell(50), NumCell(30)>>)>>)}
InputTexts == {<<>>, <<" ">>, <<"q">>}
ChartTypes == {<<"b","a","r">>, <<"p","i","e">>}
\* replies of the model: a text, and a text with a chart
ChatReplies ==
    { <<"o","k">>,
      Compose(<<"o","k">>, JObj(<<<<"t","y","p","e">>, <<"d","a","t","a">>>>,
                                <<JStr(<<"b","a","r">>), JArr(<<>>)>>)) }
KeyMissing == "OpenAI API key not found. Please add VITE_OPENAI_API_KEY to your .env file."
AnalyzeFailed ==
    <<"S","o","r","r","y",","," ","I"," ","e","n","c","o","u","n","t","e","r","e","d"," ","a","n"," ","e","r","r","o","r",":"," ","F","a","i","l","e","d"," ","t","o"," ","a","n","a","l","y","z","e"," ","d","a","t","a","."," ","P","l","e","a","s","e"," ","c","h","e","c","k"," ","y","o","u","r"," ","A","P","I"," ","k","e","y"," ","a","n","d"," ","t","r","y"," ","a","g","a","i","n",".">>

UserMessage(id, content) ==
    [id |-> id, type |-> "user", content |-> content,
     chart |-> Undefined, showChart |-> FALSE, currentChartType |-> Undefined]
AssistantMessage(id, r) ==
    [id |-> id, type |-> "assistant", content |-> r.text,
     chart |-> r.chart, showChart |-> r.chart # Undefined,
     currentChartType |-> IF r.chart # Undefined THEN r.chart.type ELSE Undefined]
\* the message of the catch branch
ErrorMessage(id) ==
    [id |-> id, type |-> "assistant", content |-> AnalyzeFailed,
     chart |-> Undefined, showChart |-> FALSE, currentChartType |-> Undefined]

\* a history saved by an earlier session
SavedHistory == <<UserMessage(0, <<"q">>), AssistantMessage(1, parseResponse_p3(<<"o","k">>))>>

\* App after its start-up effect has read localStorage
InitChat ==
    /\ question = <<>> /\ data = DataOf(<<>>) /\ rankN = 0 /\ response = <<>>
    /\ result = NoResults
    /\ apiKey \in BOOLEAN
    /\ storage \in {[data |-> NoData, history |-> <<>>],
                    [data |-> ChatData, history |-> <<>>],
                    [data |-> ChatData, history |-> SavedHistory]}
    /\ excelData = storage.data
    /\ chatMessages = storage.history
    /\ mounted = IF storage.data = NoData THEN "none" ELSE "rendered"
    /\ instance = IF storage.data = NoData THEN 0 ELSE 1
    /\ inputMessage = <<>> /\ isLoading = FALSE /\ apiError = "null" /\ openAIService = FALSE
    /\ pending = {} /\ calls = 0 /\ clock = 0

\* the effect of ChatInterface that constructs OpenAIService; the
\* constructor throws when the key is missing
Mount ==
    /\ mounted = "rendered"
    /\ mounted' = "ready"
    /\ IF apiKey THEN openAIService' = TRUE /\ apiError' = "null"
       ELSE openAIService' = openAIService /\ apiError' = KeyMissing
    /\ UNCHANGED <<inputs, result, appVars, instance, inputMessage, isLoading, callVars>>

\* typing into the input, which is disabled while loading or with an error
TypeInput ==
    /\ mounted # "none" /\ ~isLoading /\ apiError = "null"
    /\ \E v \in InputTexts : inputMessage' = v
    /\ UNCHANGED <<inputs, result, appVars, mounted, instance, isLoading, apiError, openAIService, callVars>>

\* a handler that does not look at the service or at apiError
handleSendMessage_unguarded ==
    /\ mounted # "none"
    /\ calls < MaxSends
    /\ IF trim(inputMessage) = <<>> \/ isLoading
       THEN UNCHANGED vars
       ELSE LET userMessage == UserMessage(clock, inputMessage)
                updatedMessages == Append(chatMessages, userMessage)
            IN  /\ chatMessages' = updatedMessages
                /\ inputMessage' = <<>>
                /\ isLoading' = TRUE
                /\ calls' = calls + 1
                /\ pending' = pending \cup {[call |-> calls + 1, instance |-> instance,
                                             updatedMessages |-> updatedMessages]}
                /\ UNCHANGED <<inputs, result, apiKey, excelData, storage, mounted, instance,
                               apiError, openAIService, clock>>

\* handleSendMessage up to its await: Enter in the input or a click on the
\* button; it returns at once when its guard fails
handleSendMessage ==
    /\ mounted # "none"
    /\ calls < MaxSends
    /\ IF trim(inputMessage) = <<>> \/ isLoading \/ ~openAIService \/ apiError # "null"
       THEN UNCHANGED vars
       ELSE LET userMessage == UserMessage(clock, inputMessage)
                updatedMessages == Append(chatMessages, userMessage)
            IN  /\ chatMessages' = updatedMessages
                /\ inputMessage' = <<>>
                /\ isLoading' = TRUE
                /\ calls' = calls + 1
                /\ pending' = pending \cup {[call |-> calls + 1, instance |-> instance,
                                             updatedMessages |-> updatedMessages]}
                /\ UNCHANGED <<inputs, result, apiKey, excelData, storage, mounted, instance,
                               apiError, openAIService, clock>>

\* (a handler without the finally block)
Finally_absent(p) ==
    isLoading' = isLoading

\* setIsLoading(false) of the finally block: of no effect once the instance
\* that called is unmounted
Finally(p) ==
    isLoading' = IF mounted # "none" /\ p.instance = instance THEN FALSE ELSE isLoading

\* the awaited call resolves: handleSendMessage after its await
Resolve(p) ==
    /\ p \in pending
    /\ \E reply \in ChatReplies :
          LET assistantMessage == AssistantMessage(clock + 1, parseResponse_p3(reply))
              finalMessages == Append(p.updatedMessages, assistantMessage)
          IN  /\ chatMessages' = finalMessages
              /\ storage' = [storage EXCEPT !.history = finalMessages]
    /\ Finally(p)
    /\ pending' = pending \ {p}
    /\ UNCHANGED <<inputs, result, apiKey, excelData, mounted, instance, inputMessage,
                   apiError, openAIService, calls, clock>>

\* a catch branch that sends the question again
Reject_retry(p) ==
    /\ p \in pending
    /\ calls < MaxSends
    /\ chatMessages' = Append(p.updatedMessages, ErrorMessage(clock + 1))
    /\ calls' = calls + 1
    /\ pending' = (pending \ {p}) \cup {[p EXCEPT !.call = calls + 1]}
    /\ UNCHANGED <<inputs, result, apiKey, excelData, storage, uiVars, clock>>

\* the awaited call rejects (analyzeData rethrows what it catches): the
\* catch branch of handleSendMessage
Reject(p) ==
    /\ p \in pending
    /\ chatMessages' = Append(p.updatedMessages, ErrorMessage(clock + 1))
    /\ Finally(p)
    /\ pending' = pending \ {p}
    /\ UNCHANGED <<inputs, result, apiKey, excelData, storage, mounted, instance, inputMessage,
                   apiError, openAIService, calls, clock>>


\* handleToggleChart: the button of an assistant message that has a chart
handleToggleChart(messageId) ==
    /\ mounted # "none"
    /\ \E i \in 1..Len(chatMessages) :
          /\ chatMessages[i].id = messageId
          /\ chatMessages[i].type = "assistant" /\ chatMessages[i].chart # Undefined
    /\ chatMessages' = [i \in 1..Len(chatMessages) |->
                          IF chatMessages[i].id = messageId
                          THEN [chatMessages[i] EXCEPT !.showChart = ~chatMessages[i].showChart]
                          ELSE chatMessages[i]]
    /\ UNCHANGED <<inputs, result, apiKey, excelData, storage, uiVars, callVars>>

\* handleChartTypeChange: the selector of a chart that is shown
handleChartTypeChange(messageId, newType) ==
    /\ mounted # "none"
    /\ \E i \in 1..Len(chatMessages) :
          /\ chatMessages[i].id = messageId
          /\ chatMessages[i].showChart /\ chatMessages[i].chart # Undefined
    /\ chatMessages' = [i \in 1..Len(chatMessages) |->
                          IF chatMessages[i].id = messageId
                          THEN [chatMessages[i] EXCEPT !.currentChartType = JStr(newType)]
                          ELSE chatMessages[i]]
    /\ UNCHANGED <<inputs, result, apiKey, excelData, storage, uiVars, callVars>>

\* FileUpload (shown while there is no dataset): saveExcelData, which may
\* fail on the quota, then handleDataUploaded; ChatInterface is rendered anew
handleDataUploaded(d) ==
    /\ excelData = NoData
    /\ instance < MaxMounts
    /\ \E saved \in BOOLEAN :
          storage' = [data |-> IF saved THEN d ELSE storage.data, history |-> <<>>]
    /\ excelData' = d
    /\ chatMessages' = <<>>
    /\ mounted' = "rendered" /\ instance' = instance + 1
    /\ inputMessage' = <<>> /\ isLoading' = FALSE /\ apiError' = "null" /\ openAIService' = FALSE
    /\ UNCHANGED <<inputs, result, apiKey, callVars>>

\* handleClearData: ChatInterface is unmounted
handleClearData ==
    /\ excelData # NoData
    /\ excelData' = NoData
    /\ chatMessages' = <<>>
    /\ storage' = [data |-> NoData, history |-> <<>>]
    /\ mounted' = "none"
    /\ inputMessage' = <<>> /\ isLoading' = FALSE /\ apiError' = "null" /\ openAIService' = FALSE
    /\ UNCHANGED <<inputs, result, apiKey, instance, callVars>>

\* (a handler that empties the conversation and leaves localStorage alone)
handleClearChat_memoryOnly ==
    /\ chatMessages # <<>>
    /\ chatMessages' = <<>>
    /\ UNCHANGED <<inputs, result, apiKey, excelData, storage, uiVars, callVars>>

\* handleClearChat: its button is there while the conversation is not empty
handleClearChat ==
    /\ chatMessages # <<>>
    /\ chatMessages' = <<>>
    /\ storage' = [storage EXCEPT !.history = <<>>]
    /\ UNCHANGED <<inputs, result, apiKey, excelData, uiVars, callVars>>

\* time passes
Tick ==
    /\ clock < MaxClock
    /\ clock' = clock + 1
    /\ UNCHANGED <<inputs, result, appVars, uiVars, pending, calls>>

NextChat ==
    \/ Mount
    \/ TypeInput
    \/ handleSendMessage
    \/ \E p \in pending : Resolve(p)
    \/ \E p \in pending : Reject(p)
    \/ \E m \in 1..Len(chatMessages) : handleToggleChart(chatMessages[m].id)
    \/ \E m \in 1..Len(chatMessages), newType \in ChartTypes :
          handleChartTypeChange(chatMessages[m].id, newType)
    \/ \E d \in Uploads : handleDataUploaded(d)
    \/ handleClearData
    \/ handleClearChat
    \/ Tick

SpecChat == InitChat /\ [][NextChat]_vars


(***************************************************************************)
(* C9: when the awaited call rejects, exactly one assistant message with   *)
(* the error is appended directly after the user's message of that send,   *)
(* the question is not sent again and nothing else of the call is left.    *)
(***************************************************************************)
C9_RejectionCaught ==
    [][\A p \in pending : Reject(p) =>
          LET n == Len(p.updatedMessages)
          IN  /\ Len(chatMessages') = n + 1
              /\ SubSeq(chatMessages', 1, n) = p.updatedMessages
              /\ chatMessages'[n].type = "user"
              /\ chatMessages'[n + 1].type = "assistant"
              /\ chatMessages'[n + 1].content = AnalyzeFailed
              /\ calls' = calls
              /\ pending' = pending \ {p}]_vars

\* a conversation that ends with the user's message and the error
C9_Witness ==
    /\ calls >= 1 /\ pending = {}
    /\ Len(chatMessages) >= 2
    /\ chatMessages[Len(chatMessages) - 1].type = "user"
    /\ chatMessages[Len(chatMessages)].content = AnalyzeFailed

(***************************************************************************)
(* C10: with the API key missing the service is never constructed, the     *)
(* error is set as soon as the constructing effect has run, no question is *)
(* ever dispatched and no step appends a message to the conversation.      *)
(***************************************************************************)
C10_NoKeyNoDispatch ==
    /\ [](~apiKey => /\ ~openAIService
                     /\ (mounted = "ready" => apiError = KeyMissing)
                     /\ calls = 0 /\ pending = {})
    /\ [][~apiKey => Len(chatMessages') <= Len(chatMessages)]_vars

\* the key is missing, the error is shown, and a question stands in the input
C10_Witness ==
    /\ ~apiKey /\ mounted = "ready" /\ apiError = KeyMissing
    /\ inputMessage = <<"q">>

(***************************************************************************)
(* Exceptions of src/unnamed/part_003.  extractNumericFilterCondition      *)
(* builds its two patterns from the header as it is written, so a header   *)
(* that is no pattern makes new RegExp throw a SyntaxError.  The headers   *)
(* considered are made of letters, digits, spaces and ( ) + *; a header    *)
(* with one of these four that does compile is matched as a pattern, not   *)
(* as text, and is not among the inputs below.                             *)
(***************************************************************************)
RECURSIVE GroupDepth(_, _)
\* the number of groups open after the first n characters of h; -1 once a
\* ")" closes no group
GroupDepth(h, n) ==
    LET step(d) == IF d < 0 THEN d
                   ELSE IF h[n] = "(" THEN d + 1
                   ELSE IF h[n] = ")" THEN d - 1
                   ELSE d
    IN  IF n = 0 THEN 0 ELSE step(GroupDepth(h, n - 1))

\* new RegExp(`\\b${h}\\s+...`) throws: a group is left open or closed
\* twice, or a quantifier has nothing to repeat (it follows \b, "(" or
\* another quantifier)
RegExpThrows(h) ==
    \/ GroupDepth(h, Len(h)) # 0
    \/ \E i \in 1..Len(h) :
          /\ h[i] \in {"+", "*"}
          /\ (i = 1 \/ h[i - 1] \in {"(", "+", "*"})

\* extractNumericFilterCondition throws: the scan reaches a header whose
\* pattern does not compile before any pattern has matched
extractNumericFilterCondition_throws(q, headers) ==
    LET reached(bad) ==
            /\ bad # {}
            /\ ~extractNumericFilterCondition(q, SubSeq(headers, 1, Min(bad) - 1)).found
    IN  reached({i \in 1..Len(headers) :
                    Len(headers[i]) >= 1 /\ RegExpThrows(toLowerCase(headers[i]))})

\* preprocessQuery throws: it reaches the numeric condition and that throws
preprocessQuery_p3_throws(q, d) ==
    LET lowerQuestion == toLowerCase(q)
    IN  /\ ~(isSimpleChartRequest(lowerQuestion) /\ ~isComplexQuery(lowerQuestion))
        /\ IsFalsy(processMaxMinQuery(q, d))
        /\ ~topMatch(lowerQuestion).found
        /\ ~bottomMatch(lowerQuestion).found
        /\ extractNumericFilterCondition_throws(q, allHeaders(d))

\* what is recorded for an operation that threw
Thrown == [handler |-> "throw", n |-> 0, blocks |-> <<>>]

(***************************************************************************)
(* SpecRaise: the router and the numeric condition of part_003 on sheets   *)
(* whose column names hold ( and +                                         *)
(***************************************************************************)
S_Cost == <<"C","o","s","t">>
S_CPlus == <<"C","+","+">>
S_CostOpen == <<"C","o","s","t"," ","(">>

\* a sheet of the given headers and rows
TableSheet(headers, rows) == [name |-> S_Sheet1, headers |-> headers, rows |-> rows]

RaisePhrases ==
    { <<"c","o","s","t"," ","a","b","o","v","e"," ","2","0">>,
      <<"a","t"," ","l","e","a","s","t"," ","3"," ","c","o","s","t">>,
      <<"c","+","+"," ","b","e","l","o","w"," ","5">>,
      <<"h","i","g","h","e","s","t">>,
      <<"t","o","p"," ","2">>,
      <<"p","i","e"," ","c","h","a","r","t">>,
      <<"h","e","l","l","o">> }

RaiseQuestions == {Join(ps) : ps \in SeqsUpTo(RaisePhrases, MaxPhrases) \ {<<>>}}

\* columns Name and Cost; C++ and Cost; Cost and "Cost ("; text only under
\* C++; no row; no sheet
RaiseData ==
    { DataOf(<<TableSheet(<<S_Name, S_Cost>>,
                 << <<StrCell(<<"A">>), NumCell(10)>>, <<StrCell(<<"B">>), NumCell(30)>> >>)>>),
      DataOf(<<TableSheet(<<S_CPlus, S_Cost>>,
                 << <<NumCell(1), NumCell(10)>>, <<NumCell(7), NumCell(30)>> >>)>>),
      DataOf(<<TableSheet(<<S_Cost, S_CostOpen>>,
                 << <<NumCell(10), NumCell(2)>>, <<NumCell(30), StrCell(<<"n","a">>)>> >>)>>),
      DataOf(<<TableSheet(<<S_CPlus>>, << <<StrCell(<<"n","a">>)>> >>)>>),
      DataOf(<<TableSheet(<<>>, <<>>)>>),
      DataOf(<<>>) }

InitRaise ==
    /\ question \in RaiseQuestions
    /\ data \in RaiseData
    /\ rankN = 0
    /\ response = <<>>
    /\ result = NoResults
    /\ ChatIdle

\* extractNumericFilterCondition(question, allHeaders), as preprocessQuery
\* calls it
Extract_p3 ==
    /\ ~Done("extractNumericFilterCondition")
    /\ result' = Record("extractNumericFilterCondition",
                    IF extractNumericFilterCondition_throws(question, allHeaders(data))
                    THEN Thrown
                    ELSE extractNumericFilterCondition(question, allHeaders(data)))
    /\ UNCHANGED <<inputs, chatVars>>

\* preprocessQuery(question, data) of part_003, exceptions included
Route_p3 ==
    /\ ~Done("preprocessQuery_p3")
    /\ result' = Record("preprocessQuery_p3",
                    IF preprocessQuery_p3_throws(question, data) THEN Thrown
                    ELSE preprocessQuery_p3(question, data))
    /\ UNCHANGED <<inputs, chatVars>>

NextRaise == Extract_p3 \/ Route_p3

SpecRaise == InitRaise /\ [][NextRaise]_vars

(***************************************************************************)
(* C11: for every question and every dataset (empty sheets, sheets without *)
(* a numeric column, cells that do not parse, column names that hold       *)
(* characters such as "(" or "+") the router and the numeric condition     *)
(* extractor complete without throwing.                                    *)
(***************************************************************************)
C11_NeverThrows ==
    \A name \in DOMAIN result : result[name] # Thrown

(***************************************************************************)
(* C12: in every reachable state at most one analysis request is           *)
(* outstanding: while a call to the model is unresolved no second call is  *)
(* made, whatever the order of the events.                                 *)
(***************************************************************************)
C12_OneOutstanding ==
    Cardinality(pending) <= 1

(***************************************************************************)
(* SpecNumeric: the handlers that compute with the cells of a column, on   *)
(* every Attack column of up to MaxCells cells that are numbers, text,     *)
(* the text Infinity or missing                                            *)
(***************************************************************************)
MaxCells == 3

NumericCells ==
    {NumCell(10), NumCell(30), StrCell(<<"n","a">>),
     StrCell(<<"I","n","f","i","n","i","t","y">>), NullCell}
NumericQuestions ==
    { <<"h","i","g","h","e","s","t"," ","a","t","t","a","c","k"," ","a","b","o","v","e"," ","2","0">>,
      <<"l","o","w","e","s","t"," ","a","t","t","a","c","k"," ","b","e","l","o","w"," ","3","0">> }

InitNumeric ==
    /\ question \in NumericQuestions
    /\ data \in {DataOf(<<AttackSheet(cells)>>) : cells \in SeqsUpTo(NumericCells, MaxCells)}
    /\ rankN \in 1..MaxN
    /\ response = <<>>
    /\ result = NoResults
    /\ ChatIdle

\* processTopNQuery(question, data, rankN) of openai.ts
TopN_openai ==
    /\ ~Done("processTopNQuery_openai")
    /\ \E o \in SortOrders(data) :
          result' = Record("processTopNQuery_openai",
                           processTopNQuery_openai(question, data, rankN, o))
    /\ UNCHANGED <<inputs, chatVars>>

\* processBottomNQuery(question, data, rankN) of part_003
BottomN_numeric ==
    /\ ~Done("processBottomNQuery_p3")
    /\ result' = Record("processBottomNQuery_p3", processBottomNQuery_p3(question, data, rankN))
    /\ UNCHANGED <<inputs, chatVars>>

\* processMaxMinQuery(question, data)
MaxMin_p3 ==
    /\ ~Done("processMaxMinQuery")
    /\ result' = Record("processMaxMinQuery", processMaxMinQuery(question, data))
    /\ UNCHANGED <<inputs, chatVars>>

\* processFilterQuery(question, data, allHeaders) of part_003
Filter_numeric ==
    /\ ~Done("processFilterQuery_p3")
    /\ result' = Record("processFilterQuery_p3",
                        processFilterQuery_p3(question, data, allHeaders(data)))
    /\ UNCHANGED <<inputs, chatVars>>

NextNumeric == TopN_openai \/ BottomN_numeric \/ MaxMin_p3 \/ Filter_numeric

SpecNumeric == InitNumeric /\ [][NextNumeric]_vars

\* the rows a result reports all hold a finite number in its column
ReportsFinite(r) ==
    \A b \in 1..Len(r.blocks) : \A k \in 1..Len(r.blocks[b].rows) :
        parseFloat(Get(r.blocks[b].rows[k].keys, r.blocks[b].rows[k].cells,
                       r.blocks[b].column)).k = "fin"

(***************************************************************************)
(* C13: in the ranking, the extremum scan and the numeric filter a cell    *)
(* whose float parse fails or is not finite never takes part: the rows a   *)
(* handler ranks, selects or keeps all hold a finite number in the column. *)
(***************************************************************************)
C13_OnlyFiniteTakePart ==
    \A name \in DOMAIN result : ReportsFinite(result[name])

(***************************************************************************)
(* The row identifier, applied to one row of a small table                 *)
(***************************************************************************)
S_ID == <<"I","D">>
IdentHeaders == {S_Name, S_ID, S_Attack}
IdentCells ==
    {NumCell(7), NumCell(0), StrCell(<<"A">>), StrCell(<<"7">>), StrCell(<<>>), NullCell}
\* the header lists of an object: its keys, each once
IdentHeaderLists ==
    {hs \in SeqsUpTo(IdentHeaders, MaxN) : \A i, j \in 1..Len(hs) : hs[i] = hs[j] => i = j}

InitIdent ==
    /\ question = <<>>
    /\ \E hs \in IdentHeaderLists : \E row \in [1..Len(hs) -> IdentCells] :
          data = DataOf(<<TableSheet(hs, <<row>>)>>)
    /\ rankN = 0
    /\ response = <<>>
    /\ result = NoResults
    /\ ChatIdle

\* getRowIdentifier(row, headers) of part_003
Identify_p3 ==
    /\ ~Done("getRowIdentifier_p3")
    /\ result' = Record("getRowIdentifier_p3",
                        getRowIdentifier_p3(data.sheets[1].rows[1], data.sheets[1].headers))
    /\ UNCHANGED <<inputs, chatVars>>

\* getRowIdentifier(row, headers) of openai.ts
Identify_openai ==
    /\ ~Done("getRowIdentifier_openai")
    /\ result' = Record("getRowIdentifier_openai",
                        getRowIdentifier_openai(data.sheets[1].rows[1], data.sheets[1].headers))
    /\ UNCHANGED <<inputs, chatVars>>

NextIdent == Identify_p3 \/ Identify_openai

SpecIdent == InitIdent /\ [][NextIdent]_vars

(***************************************************************************)
(* C14: for every row and header list the row identifier is a value of     *)
(* string type, never a number, null or undefined.                         *)
(***************************************************************************)
C14_IdentifierIsString ==
    \A name \in DOMAIN result : result[name].ty = "string"

(***************************************************************************)
(* SpecChart: preprocessQuery of part_003 applied to questions that ask    *)
(* for a chart, alone or together with the cue of a handler                *)
(***************************************************************************)
ChartPhrases ==
    { <<"p","i","e"," ","c","h","a","r","t">>,
      <<"b","a","r"," ","c","h","a","r","t">>,
      <<"l","i","n","e"," ","c","h","a","r","t">>,
      <<"a","r","e","a"," ","c","h","a","r","t">>,
      <<"a","t","t","a","c","k"," ","a","b","o","v","e"," ","2","0">>,
      <<"w","o","r","s","t"," ","2">>,
      <<"l","a","r","g","e","s","t"," ","a","t","t","a","c","k">>,
      <<"h","i","g","h","e","s","t"," ","a","t","t","a","c","k">>,
      <<"t","o","p"," ","2">>,
      <<"p","l","e","a","s","e">> }

ChartQuestions == {Join(ps) : ps \in SeqsUpTo(ChartPhrases, MaxPhrases) \ {<<>>}}

InitChart ==
    /\ question \in ChartQuestions
    /\ data \in RouteData
    /\ rankN = 0
    /\ response = <<>>
    /\ result = NoResults
    /\ ChatIdle

NextChart == Preprocess_p3

SpecChart == InitChart /\ [][NextChart]_vars

\* the question names one of the chart types
NamesChartType(lq) ==
    \E w \in {<<"p","i","e">>, <<"b","a","r">>, <<"l","i","n","e">>, <<"a","r","e","a">>} :
        includes(lq, w \o <<" ","c","h","a","r","t">>)

\* the question holds a keyword of the routing rule or a superlative
HasAnalyticKeyword(lq) ==
    \/ includesAny(lq, complexKeywords)
    \/ includesAny(lq, maxKeywords)
    \/ includesAny(lq, minKeywords)

(***************************************************************************)
(* C15: for a question that names a chart type (pie, bar, line or area     *)
(* chart) and holds none of the analytic keywords, superlatives included,  *)
(* the router returns no pre-processing: no handler result is produced.    *)
(***************************************************************************)
C15_BareChartNoPreprocessing ==
    (/\ Done("preprocessQuery_p3")
     /\ NamesChartType(toLowerCase(question))
     /\ ~HasAnalyticKeyword(toLowerCase(question)))
        => IsFalsy(result["preprocessQuery_p3"])

(***************************************************************************)
(* The arrays a handler sorts.  Array.prototype.sort sorts the array it is *)
(* called on in place; a spread, filter, map or slice returns a new array. *)
(* A handler's expression over the rows of a sheet is the sequence of its  *)
(* steps, and the sheet's own array is sorted when no step before the sort *)
(* made a copy.                                                            *)
(***************************************************************************)
CopyingSteps == {"spread", "filter", "map", "slice"}

\* rows.sort(...).slice(0, n), and the expression of the handlers:
\* [...rows].filter(...).sort(...).slice(0, n)
rankChain_inPlace == <<"sort", "slice">>
rankChain_p3 == <<"spread", "filter", "sort", "slice">>
\* rows.filter(...).sort(...).map(...)
trendChain == <<"filter", "sort", "map">>

SortsInPlace(chain) ==
    \E i \in 1..Len(chain) :
        chain[i] = "sort" /\ \A j \in 1..(i - 1) : chain[j] \notin CopyingSteps

\* the rows of a sheet after processTopNQuery / processBottomNQuery of
\* part_003 went over it
RowsAfterRank_p3(sheet, q, descending) ==
    LET rows == sheet.rows
        headers == sheet.headers
        numericColumns == numericColumns_p3(headers, rows)
        sorted(relevantColumn) ==
            IF relevantColumn = <<>> THEN rows
            ELSE SortByColumn(headers, rows, relevantColumn, descending)
    IN  IF ~SortsInPlace(rankChain_p3) \/ Len(rows) = 0 \/ numericColumns = <<>> THEN rows
        ELSE sorted(findRelevantColumn_p3(q, numericColumns, headers, rows))

\* the rows of a sheet after processTrendQuery went over it
RowsAfterTrend(sheet, q) ==
    LET rows == sheet.rows
        headers == sheet.headers
        dateColumns == FilterAt(headers, {i \in 1..Len(headers) :
            \E r \in 1..Len(rows) : ~isNaN(DateParse(rows[r][i]))})
        numericColumns == numericColumns_openai(headers, rows)
        sorted(time) ==
            StableSort(rows, [i \in 1..Len(rows) |-> [j \in 1..Len(rows) |->
                                 SubSign(time[i], time[j])]])
    IN  IF ~SortsInPlace(trendChain) \/ Len(rows) = 0 THEN rows
        ELSE IF dateColumns = <<>> \/ numericColumns = <<>> THEN rows
        ELSE sorted([i \in 1..Len(rows) |-> DateParse(Get(headers, rows[i], dateColumns[1]))])

\* the dataset with the rows of each sheet replaced
WithRows(d, rowsOf) ==
    [d EXCEPT !.sheets = [s \in 1..Len(d.sheets) |->
                             [d.sheets[s] EXCEPT !.rows = rowsOf[s]]]]

(***************************************************************************)
(* SpecFrame: the sorting handlers applied to sheets of dated rows, each   *)
(* with what it does to the dataset it was handed                          *)
(***************************************************************************)
S_Date == <<"D","a","t","e">>
FrameRows ==
    { <<StrCell(<<"2","0","2","4","-","0","3","-","0","1">>), NumCell(10)>>,
      <<StrCell(<<"2","0","2","4","-","0","1","-","0","1">>), NumCell(50)>>,
      <<StrCell(<<"2","0","2","4","-","0","2","-","0","1">>), NumCell(30)>> }
FrameQuestions ==
    { <<"t","o","p"," ","2"," ","b","y"," ","a","t","t","a","c","k">>,
      <<"a","t","t","a","c","k"," ","t","r","e","n","d">> }

InitFrame ==
    /\ question \in FrameQuestions
    /\ data \in {DataOf(<<TableSheet(<<S_Date, S_Attack>>, rows)>>) :
                    rows \in SeqsUpTo(FrameRows, MaxCells)}
    /\ rankN \in 1..MaxN
    /\ response = <<>>
    /\ result = NoResults
    /\ ChatIdle

\* processTopNQuery(question, data, rankN) of part_003
TopN_frame ==
    /\ ~Done("processTopNQuery_p3")
    /\ result' = Record("processTopNQuery_p3", processTopNQuery_p3(question, data, rankN))
    /\ data' = WithRows(data, [s \in 1..Len(data.sheets) |->
                                  RowsAfterRank_p3(data.sheets[s], question, TRUE)])
    /\ UNCHANGED <<question, rankN, response, chatVars>>

\* processBottomNQuery(question, data, rankN) of part_003
BottomN_frame ==
    /\ ~Done("processBottomNQuery_p3")
    /\ result' = Record("processBottomNQuery_p3", processBottomNQuery_p3(question, data, rankN))
    /\ data' = WithRows(data, [s \in 1..Len(data.sheets) |->
                                  RowsAfterRank_p3(data.sheets[s], question, FALSE)])
    /\ UNCHANGED <<question, rankN, response, chatVars>>

\* processTrendQuery(question, data) of openai.ts
Trend_frame ==
    /\ ~Done("processTrendQuery")
    /\ result' = Record("processTrendQuery", processTrendQuery(question, data))
    /\ data' = WithRows(data, [s \in 1..Len(data.sheets) |->
                                  RowsAfterTrend(data.sheets[s], question)])
    /\ UNCHANGED <<question, rankN, response, chatVars>>

NextFrame == TopN_frame \/ BottomN_frame \/ Trend_frame

SpecFrame == InitFrame /\ [][NextFrame]_vars

(***************************************************************************)
(* C16: processing a question leaves the dataset unchanged: every step of  *)
(* a handler leaves every sheet with the same rows, in the same order and  *)
(* with the same cell values (the sorts and filters act on copies).        *)
(***************************************************************************)
C16_DatasetUnchanged == [][data' = data]_vars

\* the ranking and the trend have put rows into another order than that of
\* the sheet, which still holds all its rows
C16_Witness ==
    /\ Done("processTopNQuery_p3") /\ Done("processBottomNQuery_p3") /\ Done("processTrendQuery")
    /\ result["processTopNQuery_p3"].blocks # <<>>
    /\ result["processTrendQuery"].blocks # <<>>
    /\ Len(data.sheets[1].rows) = MaxCells
    /\ result["processTopNQuery_p3"].blocks[1].rows[1].cells # data.sheets[1].rows[1]
    /\ result["processTrendQuery"].blocks[1].points[1].date # data.sheets[1].rows[1][1].str

\* the handler results the pipeline of part_003 has for a question: those
\* of the handlers whose intent the question matches
Applicable_p3(q, d) ==
    LET lq == toLowerCase(q)
        top(m) == IF m.found THEN {processTopNQuery_p3(q, d, m.n)} ELSE {}
        bottom(m) == IF m.found THEN {processBottomNQuery_p3(q, d, m.n)} ELSE {}
        filter(c) == IF c.found THEN {processFilterQuery_p3(q, d, allHeaders(d))} ELSE {}
        all(results) == {r \in results : ~IsFalsy(r)}
    IN  all({processMaxMinQuery(q, d)} \cup top(topMatch(lq)) \cup bottom(bottomMatch(lq))
            \cup filter(extractNumericFilterCondition(q, allHeaders(d))))

(***************************************************************************)
(* C17: a handler that is not applicable on any sheet does not end the     *)
(* routing.  The router never returns the result of a handler that         *)
(* reported on no sheet, and when a handler of a later intent has a result *)
(* for the question the router does not return nothing.                    *)
(***************************************************************************)
C17_FallsThrough ==
    /\ \A name \in DOMAIN result \cap {"preprocessQuery_p3", "preprocessQuery_openai"} :
          IsFalsy(result[name]) \/ result[name].blocks # <<>>
    /\ (/\ Done("preprocessQuery_p3")
        /\ IsFalsy(result["preprocessQuery_p3"])
        /\ ~(isSimpleChartRequest(toLowerCase(question)) /\ ~isComplexQuery(toLowerCase(question))))
          => Applicable_p3(question, data) = {}

(***************************************************************************)
(* SpecExtreme: processMaxMinQuery applied to questions with a superlative,*)
(* a top/bottom N pattern or an entity, over sheets of typed rows          *)
(***************************************************************************)
S_Type == <<"T","y","p","e">>
ExtremePhrases ==
    { <<"t","o","p"," ","2">>,
      <<"b","o","t","t","o","m"," ","2">>,
      <<"h","i","g","h","e","s","t"," ","a","t","t","a","c","k">>,
      <<"l","o","w","e","s","t"," ","a","t","t","a","c","k">>,
      <<"f","o","r"," ","f","i","r","e">>,
      <<"s","h","o","w">> }
ExtremeQuestions == {Join(ps) : ps \in SeqsUpTo(ExtremePhrases, MaxPhrases) \ {<<>>}}

\* the Type and the Attack of a row
ExtremeCells ==
    {<<StrCell(ty), at>> : ty \in {<<"f","i","r","e">>, <<"w","a","t","e","r">>},
                           at \in {NumCell(10), NumCell(50), StrCell(<<"n","a">>)}}
\* rows A, B, C, ... of Name, Type and Attack
ExtremeSheet(cells) ==
    TableSheet(<<S_Name, S_Type, S_Attack>>,
               [i \in 1..Len(cells) |-> <<StrCell(<<UpperChars[i]>>)>> \o cells[i]])

InitExtreme ==
    /\ question \in ExtremeQuestions
    /\ data \in {DataOf(<<ExtremeSheet(cells)>>) : cells \in SeqsUpTo(ExtremeCells, MaxCells)}
    /\ rankN = 0
    /\ response = <<>>
    /\ result = NoResults
    /\ ChatIdle

NextExtreme == MaxMin_p3

SpecExtreme == InitExtreme /\ [][NextExtreme]_vars

\* the question holds "top N" or "bottom N", wherever it stands
HasTopBottomN(lq) ==
    WordNumberMatch(lq, << <<"t","o","p">>, <<"b","o","t","t","o","m">> >>).found

(***************************************************************************)
(* C18: the single-extremum handler is not applicable to a question that   *)
(* holds an explicit "top N" or "bottom N" pattern, wherever the pattern   *)
(* stands, its very start included; it reports only for a question with a  *)
(* superlative keyword and no such pattern.                                *)
(***************************************************************************)
C18_NotForTopBottomN ==
    Done("processMaxMinQuery") =>
        /\ HasTopBottomN(toLowerCase(question)) => IsFalsy(result["processMaxMinQuery"])
        /\ ~IsFalsy(result["processMaxMinQuery"]) =>
              includesAny(toLowerCase(question), maxKeywords \o minKeywords)

\* the rows the extremum handler scans: those of the entity, if the
\* question names one
NarrowedRows(sheet, lq) ==
    LET filter == extractFilterEntity(lq, sheet.headers, sheet.rows)
    IN  IF filter.found
        THEN FilterAt(sheet.rows, {r \in 1..Len(sheet.rows) :
                includes(toLowerCase(CellString(Get(sheet.headers, sheet.rows[r], filter.column))),
                         toLowerCase(filter.value))})
        ELSE sheet.rows

\* block b reports, of the rows working, the first that holds the largest
\* (smallest) value that parses in the column of b
ReportsExtreme(b, headers, working, largest) ==
    LET val == [i \in 1..Len(working) |-> parseFloat(Get(headers, working[i], b.column))]
        holders == {i \in 1..Len(working) : val[i] = b.value}
    IN  /\ ~isNaN(b.value)
        /\ holders # {}
        /\ \A i \in 1..Len(working) :
              ~isNaN(val[i]) => IF largest THEN ~NumGreater(val[i], b.value)
                                ELSE ~NumLess(val[i], b.value)
        /\ b.rows = << Obj(headers, working[Min(holders)]) >>

(***************************************************************************)
(* C19: what the single-extremum handler reports for a sheet is the        *)
(* largest (max keywords) or smallest (min keywords) value that parses in  *)
(* the metric column among the rows left by the entity narrowing, with the *)
(* first row that holds it, and a chart payload with exactly one point.    *)
(***************************************************************************)
C19_ReportsExtreme ==
    Done("processMaxMinQuery") =>
        LET lq == toLowerCase(question)
            r == result["processMaxMinQuery"]
            hasMax == includesAny(lq, maxKeywords)
            hasMin == includesAny(lq, minKeywords)
        IN  \A k \in 1..Len(r.blocks) :
              \E s \in 1..Len(data.sheets) :
                /\ r.blocks[k].sheet = data.sheets[s].name
                /\ \E largest \in {m \in BOOLEAN : (m /\ hasMax) \/ (~m /\ hasMin)} :
                      ReportsExtreme(r.blocks[k], data.sheets[s].headers,
                                     NarrowedRows(data.sheets[s], lq), largest)
                /\ Len(r.blocks[k].chart.data) = 1

\* "highest attack for fire" over A (water, 50), B (fire, 50), C (fire, 50):
\* the narrowing leaves B and C, which tie, and B is reported
C19_Witness ==
    /\ Done("processMaxMinQuery")
    /\ question = Join(<< <<"h","i","g","h","e","s","t"," ","a","t","t","a","c","k">>,
                          <<"f","o","r"," ","f","i","r","e">> >>)
    /\ data = DataOf(<<ExtremeSheet(<< <<StrCell(<<"w","a","t","e","r">>), NumCell(50)>>,
                                       <<StrCell(<<"f","i","r","e">>), NumCell(50)>>,
                                       <<StrCell(<<"f","i","r","e">>), NumCell(50)>> >>)>>)
    /\ Len(result["processMaxMinQuery"].blocks) = 1
    /\ result["processMaxMinQuery"].blocks[1].rows[1].cells[1] = StrCell(<<"B">>)
    /\ result["processMaxMinQuery"].blocks[1].value = Fin(50)

(***************************************************************************)
(* SpecExtract: extractNumericFilterCondition applied to questions that    *)
(* hold conditions on several columns, with several operators and in both  *)
(* word orders                                                             *)
(***************************************************************************)
S_Defense == <<"D","e","f","e","n","s","e">>
ExtractPhrases ==
    { <<"a","t","t","a","c","k"," ","a","b","o","v","e"," ","2","0">>,
      <<"a","b","o","v","e"," ","5">>,
      <<"a","t","t","a","c","k"," ","b","e","l","o","w"," ","3","0">>,
      <<"d","e","f","e","n","s","e"," ","a","t"," ","l","e","a","s","t"," ","3">>,
      <<"a","t"," ","m","o","s","t"," ","9"," ","d","e","f","e","n","s","e">>,
      <<"s","h","o","w">> }
ExtractQuestions == {Join(ps) : ps \in SeqsUpTo(ExtractPhrases, MaxPhrases) \ {<<>>}}
\* the header lists of a row: its keys, each once
ExtractHeaderLists ==
    {hs \in SeqsUpTo({S_Attack, S_Defense}, MaxN) : \A i, j \in 1..Len(hs) : hs[i] = hs[j] => i = j}

InitExtract ==
    /\ question \in ExtractQuestions
    /\ data \in {DataOf(<<TableSheet(hs, << [i \in 1..Len(hs) |-> NumCell(10)] >>)>>) :
                    hs \in ExtractHeaderLists}
    /\ rankN = 0
    /\ response = <<>>
    /\ result = NoResults
    /\ ChatIdle

NextExtract == Extract_p3

SpecExtract == InitExtract /\ [][NextExtract]_vars

\* header h with word w of operator o matches the question in one of the
\* two word orders
CombinationMatches(lq, headers, h, o, w) ==
    \/ P1Matches(lq, toLowerCase(headers[h]), operators[o].words[w]) # {}
    \/ P2Matches(lq, toLowerCase(headers[h]), operators[o].words[w]) # {}

\* r is the condition of header h, operator o and word w: the value is that
\* of "<header> <word> <number>" when that order matches
IsConditionOf(r, lq, headers, h, o, w) ==
    /\ r.column = headers[h]
    /\ r.operator = operators[o].symbol
    /\ r.value = (IF P1Matches(lq, toLowerCase(headers[h]), operators[o].words[w]) # {}
                  THEN P1Value(lq, toLowerCase(headers[h]), operators[o].words[w])
                  ELSE P2Value(lq, toLowerCase(headers[h]), operators[o].words[w]))

(***************************************************************************)
(* C20: the numeric condition extractor returns the first match, scanning  *)
(* the headers in their order, then the operators >, <, >=, <=, ==, then   *)
(* the words of the operator, then "<header> <word> <number>" before       *)
(* "<word> <number> <header>": no earlier header, operator or word         *)
(* matches, and the operator returned is that of the word that matched.    *)
(* It returns none only when no combination matches.                       *)
(***************************************************************************)
C20_FirstMatch ==
    (Done("extractNumericFilterCondition") /\ result["extractNumericFilterCondition"] # Thrown) =>
        LET lq == toLowerCase(question)
            headers == allHeaders(data)
            r == result["extractNumericFilterCondition"]
            Words(o) == 1..Len(operators[o].words)
            symbols == [o \in 1..Len(operators) |-> operators[o].symbol]
        IN  /\ symbols = << <<">">>, <<"<">>, <<">","=">>, <<"<","=">>, <<"=","=">> >>
            /\ ~r.found =>
                  \A h \in 1..Len(headers) : \A o \in 1..Len(operators) : \A w \in Words(o) :
                      ~CombinationMatches(lq, headers, h, o, w)
            /\ r.found =>
                  \E h \in 1..Len(headers) : \E o \in 1..Len(operators) : \E w \in Words(o) :
                      /\ CombinationMatches(lq, headers, h, o, w)
                      /\ IsConditionOf(r, lq, headers, h, o, w)
                      /\ \A h2 \in 1..Len(headers) : \A o2 \in 1..Len(operators) :
                            \A w2 \in Words(o2) :
                                (h2 < h \/ (h2 = h /\ o2 < o) \/ (h2 = h /\ o2 = o /\ w2 < w))
                                    => ~CombinationMatches(lq, headers, h2, o2, w2)

\* "above 5 attack above 20" over Defense, Attack: both word orders match
\* for Attack, and the condition is Attack > 20
C20_Witness ==
    /\ Done("extractNumericFilterCondition")
    /\ question = Join(<< <<"a","b","o","v","e"," ","5">>,
                          <<"a","t","t","a","c","k"," ","a","b","o","v","e"," ","2","0">> >>)
    /\ allHeaders(data) = <<S_Defense, S_Attack>>
    /\ P2Matches(question, toLowerCase(S_Attack), <<"a","b","o","v","e">>) # {}
    /\ result["extractNumericFilterCondition"] =
          [found |-> TRUE, column |-> S_Attack, operator |-> <<">">>, value |-> 20]

(***************************************************************************)
(* SpecResolve: findRelevantColumn as the handlers call it, over the       *)
(* numeric columns of a sheet: processTopNQuery of part_003 hands it the   *)
(* question as typed, processMaxMinQuery the lower-cased question, and     *)
(* openai.ts has its own resolver                                          *)
(***************************************************************************)
S_Price == <<"P","r","i","c","e">>
ResolvePhrases ==
    { <<"A","t","t","a","c","k">>,
      <<"a","t","t","a","c","k">>,
      <<"D","e","f","e","n","s","e">>,
      <<"d","e","f","e","n","s","e">>,
      <<"p","r","i","c","e">>,
      <<"s","h","o","w">> }
ResolveQuestions == {Join(ps) : ps \in SeqsUpTo(ResolvePhrases, MaxPhrases) \ {<<>>}}
\* the header lists of a row: its keys, each once
ResolveHeaderLists ==
    {hs \in SeqsUpTo({S_Attack, S_Defense, S_Price}, MaxN) :
        \A i, j \in 1..Len(hs) : hs[i] = hs[j] => i = j}
ResolveSheets ==
    UNION {{TableSheet(hs, rows) :
               rows \in SeqsUpTo([1..Len(hs) -> {NumCell(10), StrCell(<<"n","a">>)}], MaxN)} :
           hs \in ResolveHeaderLists}

InitResolve ==
    /\ question \in ResolveQuestions
    /\ data \in {DataOf(<<sh>>) : sh \in ResolveSheets}
    /\ rankN = 0
    /\ response = <<>>
    /\ result = NoResults
    /\ ChatIdle

\* the candidates the handlers of part_003 and of openai.ts hand over
Candidates_p3(d) == numericColumns_p3(d.sheets[1].headers, d.sheets[1].rows)
Candidates_openai(d) == numericColumns_openai(d.sheets[1].headers, d.sheets[1].rows)

\* this.findRelevantColumn(question, numericColumns, rows) of processTopNQuery
Resolve_topN ==
    /\ ~Done("findRelevantColumn_topN")
    /\ result' = Record("findRelevantColumn_topN",
                        findRelevantColumn_p3(question, Candidates_p3(data),
                                              data.sheets[1].headers, data.sheets[1].rows))
    /\ UNCHANGED <<inputs, chatVars>>

\* this.findRelevantColumn(lowerQuestion, numericColumns, rows) of processMaxMinQuery
Resolve_extremum ==
    /\ ~Done("findRelevantColumn_extremum")
    /\ result' = Record("findRelevantColumn_extremum",
                        findRelevantColumn_p3(toLowerCase(question), Candidates_p3(data),
                                              data.sheets[1].headers, data.sheets[1].rows))
    /\ UNCHANGED <<inputs, chatVars>>

\* this.findRelevantColumn(question, numericColumns) of openai.ts
Resolve_openai ==
    /\ ~Done("findRelevantColumn_openai")
    /\ result' = Record("findRelevantColumn_openai",
                        findRelevantColumn_openai(question, Candidates_openai(data)))
    /\ UNCHANGED <<inputs, chatVars>>

NextResolve == Resolve_topN \/ Resolve_extremum \/ Resolve_openai

SpecResolve == InitResolve /\ [][NextResolve]_vars

\* the candidates whose name occurs in the question, letter case ignored
NamedIn(q, candidates) ==
    {i \in 1..Len(candidates) : includes(toLowerCase(q), toLowerCase(candidates[i]))}

\* what was resolved is the first candidate the question names, if it
\* names one
ResolvesNamed(column, q, candidates) ==
    NamedIn(q, candidates) # {} => column = candidates[Min(NamedIn(q, candidates))]

(***************************************************************************)
(* C21: when the name of a candidate column occurs in the question, letter *)
(* case ignored, the column resolver returns the first such candidate,     *)
(* whatever the case of the question and whichever handler calls it.       *)
(***************************************************************************)
C21_NamedColumnFirst ==
    /\ Done("findRelevantColumn_topN") =>
          ResolvesNamed(result["findRelevantColumn_topN"], question, Candidates_p3(data))
    /\ Done("findRelevantColumn_extremum") =>
          ResolvesNamed(result["findRelevantColumn_extremum"], question, Candidates_p3(data))
    /\ Done("findRelevantColumn_openai") =>
          ResolvesNamed(result["findRelevantColumn_openai"], question, Candidates_openai(data))

\* the first candidate with a number in some row, the first candidate when
\* there is none
NumericFallback(candidates, headers, rows) ==
    LET numeric == {i \in 1..Len(candidates) :
                       \E r \in 1..Len(rows) :
                           ~isNaN(parseFloat(Get(headers, rows[r], candidates[i])))}
    IN  IF numeric # {} THEN candidates[Min(numeric)] ELSE candidates[1]

\* column is what a total resolver returns for question q
ResolvesTotally(column, q, candidates, headers, rows) ==
    candidates # <<>> =>
        /\ \E i \in 1..Len(candidates) : column = candidates[i]
        /\ (/\ NamedIn(q, candidates) = {}
            /\ \A k \in 1..Len(keywords_p3) : ~includes(toLowerCase(q), keywords_p3[k].keyword))
              => column = NumericFallback(candidates, headers, rows)

(***************************************************************************)
(* C22: the column resolver of part_003 is total: for a non-empty list of  *)
(* candidates it returns one of them, and when the question names no       *)
(* column and holds no synonym it returns the first candidate with a       *)
(* number in some row, or else the first candidate.                        *)
(***************************************************************************)
C22_ResolverTotal ==
    \A name \in DOMAIN result \cap {"findRelevantColumn_topN", "findRelevantColumn_extremum"} :
        ResolvesTotally(result[name], question, Candidates_p3(data),
                        data.sheets[1].headers, data.sheets[1].rows)

(***************************************************************************)
(* SpecCap: the two filter handlers over sheets of up to MaxSheetRows      *)
(* rows, more than either handler's sample holds                           *)
(***************************************************************************)
MaxSheetRows == 22
\* result += `Result:\n${JSON.stringify(filteredRows.slice(0, 20))}\n\n`
SampleCap == 20

CapQuestions ==
    { <<"a","t","t","a","c","k"," ","a","b","o","v","e"," ","0">>,
      <<"a","t","t","a","c","k"," ","a","b","o","v","e"," ","5">>,
      <<"o","n","l","y"," ","a","t","t","a","c","k"," ","a","b","o","v","e"," ","2","1">>,
      <<"w","h","e","r","e"," ","\"","a","\"">> }

\* rows A, B, C, ... with Attack 1, 2, 3, ...
CountingSheet(n) == AttackSheet([i \in 1..n |-> NumCell(i)])

InitCap ==
    /\ question \in CapQuestions
    /\ data \in {DataOf(<<CountingSheet(n)>>) : n \in 0..MaxSheetRows}
    /\ rankN = 0
    /\ response = <<>>
    /\ result = NoResults
    /\ ChatIdle

\* processFilterQuery(question, data) of openai.ts
Filter_openai ==
    /\ ~Done("processFilterQuery_openai")
    /\ result' = Record("processFilterQuery_openai", processFilterQuery_openai(question, data))
    /\ UNCHANGED <<inputs, chatVars>>

NextCap == Filter_p3 \/ Filter_openai

SpecCap == InitCap /\ [][NextCap]_vars

\* the rows block b of a filter result writes into the text: its sample
\* and, where it has one, the data of its chart payload
RowsWritten(b) ==
    (IF "rows" \in DOMAIN b THEN Len(b.rows) ELSE 0)
    + (IF "lines" \in DOMAIN b THEN Len(b.lines) ELSE 0)
    + (IF "chart" \in DOMAIN b THEN Len(b.chart.data) ELSE 0)

(***************************************************************************)
(* C23: a block of the Filter handler's result reports the total and the   *)
(* filtered row counts of its sheet and writes at most a fixed number of   *)
(* the filtered rows into the text, however many rows match.               *)
(***************************************************************************)
C23_FilterCapped ==
    \A name \in DOMAIN result \cap {"processFilterQuery_p3", "processFilterQuery_openai"} :
        \A k \in 1..Len(result[name].blocks) :
            LET b == result[name].blocks[k]
            IN  /\ {"total", "filtered"} \subseteq DOMAIN b
                /\ b.total = Len(data.sheets[1].rows)
                /\ b.filtered <= b.total
                /\ RowsWritten(b) <= 2 * SampleCap

(***************************************************************************)
(* C24: handleDataUploaded leaves the uploaded dataset in memory and the   *)
(* conversation and the saved history empty; handleClearData leaves the    *)
(* dataset, the conversation and both entries of localStorage empty;       *)
(* handleClearChat leaves the conversation and the saved history empty and *)
(* the dataset as it was.                                                  *)
(***************************************************************************)
C24_UploadAndClear ==
    [][/\ \A d \in Uploads : handleDataUploaded(d) =>
              excelData' = d /\ chatMessages' = <<>> /\ storage'.history = <<>>
       /\ handleClearData =>
              /\ excelData' = NoData /\ chatMessages' = <<>>
              /\ storage'.data = NoData /\ storage'.history = <<>>
       /\ handleClearChat =>
              /\ chatMessages' = <<>> /\ storage'.history = <<>>
              /\ excelData' = excelData /\ storage'.data = storage.data]_vars

\* a second file was uploaded after a conversation over the first: the new
\* dataset is in memory, nothing is left of the conversation
C24_Witness ==
    /\ instance >= 2 /\ calls >= 1 /\ pending = {}
    /\ excelData \in Uploads \ {ChatData}
    /\ chatMessages = <<>> /\ storage.history = <<>>

(***************************************************************************)
(* C25: what was done to the conversation while a question was in flight   *)
(* is kept when the call settles: the conversation after the answer or the *)
(* error is the conversation just before it with the one new assistant     *)
(* message appended.                                                       *)
(***************************************************************************)
C25_AnswerAppends ==
    [][\A p \in pending : (Resolve(p) \/ Reject(p)) =>
          /\ Len(chatMessages') = Len(chatMessages) + 1
          /\ SubSeq(chatMessages', 1, Len(chatMessages)) = chatMessages
          /\ chatMessages'[Len(chatMessages')].type = "assistant"]_vars

(***************************************************************************)
(* C26: while no dataset is loaded the conversation and the saved chat     *)
(* history are empty.                                                      *)
(***************************************************************************)
C26_NoDataNoMessages ==
    excelData = NoData => chatMessages = <<>> /\ storage.history = <<>>

(***************************************************************************)
(* C27: when a question completes, with an answer or with an error         *)
(* message, the saved chat history is the conversation in memory.          *)
(***************************************************************************)
C27_HistorySaved ==
    [][\A p \in pending : (Resolve(p) \/ Reject(p)) => storage'.history = chatMessages']_vars

(***************************************************************************)
(* C28: the ids of the messages of the conversation are pairwise distinct  *)
(* in every reachable state.                                               *)
(***************************************************************************)
C28_DistinctIds ==
    \A m, n \in 1..Len(chatMessages) : chatMessages[m].id = chatMessages[n].id => m = n

(***************************************************************************)
(* The chat with the model call taken as one that settles: the request of  *)
(* analyzeData resolves or rejects, and the continuation of                *)
(* handleSendMessage is then run by the event loop.                        *)
(***************************************************************************)
Settles == \E p \in pending : Resolve(p) \/ Reject(p)

SpecChatLive == InitChat /\ [][NextChat]_vars /\ WF_vars(Settles)

\* a request of the ChatInterface that is on the page is outstanding
OwnOutstanding == mounted # "none" /\ \E p \in pending : p.instance = instance

\* call number c was dispatched and has settled
Settled(c) == calls >= c /\ \A p \in pending : p.call # c

=============================================================================
